----------------------------- MODULE MCModShell -----------------------------
(***************************************************************************)
(* An instance of ModShell for TLC: the blob and a relocatable module in   *)
(* the kernel; one file on the host, which is absent, a module that loads, *)
(* or the beginning of it, which is one with too many exports.             *)
(***************************************************************************)
EXTENDS ModShell, MCModLoader, TLC

FileUri == [scheme |-> "none", absolute |-> TRUE, path |-> "a"]
EmbeddedUri == [scheme |-> "other", absolute |-> FALSE, path |-> "a"]
OddUri == [scheme |-> "file:", absolute |-> FALSE, path |-> "a"]

MCUris == {FileUri, EmbeddedUri, OddUri}
MCEmbedUri == EmbeddedUri :> Plain

File(data) == [type |-> "file", data |-> data]
MCHostFiles == {[type |-> "none", data |-> << >>], File(<<1>>), File(<<1, 2>>)}

MCImageOf == <<1>> :> ManyExports @@ <<1, 2>> :> Other
MCShellImages == {Exec, Plain, ManyExports, Other}
MCPayloadValues == {42, -1}
MCShellExports == {<<"ext", 300>>}
==============================================================================
