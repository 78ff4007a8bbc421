------------------------------ MODULE ExportMap ------------------------------
(***************************************************************************)
(* What the kernel export table promises its callers: a partial map from   *)
(* names to addresses.  Registering a name binds it or rebinds it,         *)
(* unregistering forgets it, and only a new name may be refused for lack   *)
(* of room, when Capacity names are bound.  Slots and their order are not  *)
(* part of the promise.                                                    *)
(***************************************************************************)
EXTENDS Naturals, FiniteSets, Functions, Lk

CONSTANTS
    Capacity,   \* number of names that can be bound at once
    Names,      \* names a caller may pass
    Bindable,   \* those that may be bound
    Reserved,   \* those that are always bound and never rebound
    Addrs       \* addresses that may be bound

VARIABLES
    bound,      \* the map
    call,       \* the last call and its name
    status      \* what it returned

Answer(op, name, st) ==
    /\ call' = <<op, name>>
    /\ status' = st

Bind(name, addr) ==
    /\ name \in DOMAIN bound \/ Cardinality(DOMAIN bound) < Capacity
    /\ bound' = [n \in DOMAIN bound \cup {name} |->
                    IF n = name THEN addr ELSE bound[n]]
    /\ Answer("register", name, NO_ERROR)

NoRoom(name) ==
    /\ name \notin DOMAIN bound
    /\ Cardinality(DOMAIN bound) = Capacity
    /\ UNCHANGED bound
    /\ Answer("register", name, NO_MEMORY)

Refuse(name) ==
    /\ UNCHANGED bound
    /\ \/ name \in Reserved /\ Answer("register", name, ALREADY_EXISTS)
       \/ name \in Names /\ Answer("register", name, INVALID_ARGS)
       \/ name \notin Bindable /\ Answer("register", name, TOO_BIG)

Forget(name) ==
    /\ name \in DOMAIN bound
    /\ bound' = Restrict(bound, DOMAIN bound \ {name})
    /\ Answer("unregister", name, NO_ERROR)

NotBound(name) ==
    /\ name \notin DOMAIN bound
    /\ UNCHANGED bound
    /\ \/ name \notin Bindable /\ Answer("unregister", name, INVALID_ARGS)
       \/ Answer("unregister", name, NOT_FOUND)

Init ==
    /\ bound = << >>
    /\ call = << >>
    /\ status = NO_ERROR

Next ==
    \/ \E n \in Bindable, a \in Addrs : Bind(n, a)
    \/ \E n \in Bindable : NoRoom(n) \/ Forget(n)
    \/ \E n \in Names : Refuse(n) \/ NotBound(n)

Spec == Init /\ [][Next]_<<bound, call, status>>
==============================================================================
