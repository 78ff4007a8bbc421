--------------------------------- MODULE Lk ---------------------------------
(***************************************************************************)
(* What the module loader takes from LK: the status_t values of lk/err.h   *)
(* it returns, the ROUNDUP macro, the Thumb bit of a code address, and the *)
(* null address and name.                                                  *)
(***************************************************************************)
EXTENDS Integers

CONSTANT NoName     \* a null pointer to a name, or the empty name

NO_ERROR == "NO_ERROR"
INVALID_ARGS == "ERR_INVALID_ARGS"
NOT_VALID == "ERR_NOT_VALID"
NOT_FOUND == "ERR_NOT_FOUND"
NOT_READY == "ERR_NOT_READY"
NOT_SUPPORTED == "ERR_NOT_SUPPORTED"
ALREADY_EXISTS == "ERR_ALREADY_EXISTS"
NO_MEMORY == "ERR_NO_MEMORY"
TOO_BIG == "ERR_TOO_BIG"
NOT_ALLOWED == "ERR_NOT_ALLOWED"
NOT_FILE == "ERR_NOT_FILE"
IO == "ERR_IO"
MMU_ERROR == "ERR_GENERIC"     \* an error of arch_mmu_query or arch_mmu_map

Statuses == {NO_ERROR, INVALID_ARGS, NOT_VALID, NOT_FOUND, NOT_READY,
             NOT_SUPPORTED, ALREADY_EXISTS, NO_MEMORY, TOO_BIG, NOT_ALLOWED,
             NOT_FILE, IO, MMU_ERROR}

NULL == 0       \* the null address

\* ROUNDUP(a, b), for the powers of two b it is meant for.
RoundUp(a, b) == LET c == a + b - 1 IN c - (c % b)

\* Address a with bit 0, the Thumb bit, set or cleared.
SetBit0(a) == IF a % 2 = 0 THEN a + 1 ELSE a
ClearBit0(a) == IF a % 2 = 0 THEN a ELSE a - 1
==============================================================================
