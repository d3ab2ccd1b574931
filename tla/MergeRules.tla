----------------------------- MODULE MergeRules -----------------------------
(***************************************************************************)
(* Resolution of concurrent writes: the pure functions of                  *)
(* packages/shared/src/sync/merge.ts, called by the server for every       *)
(* pushed update.                                                          *)
(*                                                                         *)
(* A field is a member of a small set, a timestamp and a device identifier *)
(* are numbers (only their order is used), and 0 stands for the null base  *)
(* version of a mutation and for the null identifier of a writer that is   *)
(* not a device.                                                           *)
(***************************************************************************)
EXTENDS Naturals

\* What the resolution says of an update, and the fields it lets through.
Outcome(kind, fields) == [kind |-> kind, fields |-> fields]

\* Date first, device identifier to break a tie.
ClientWins(clientTs, serverTs, clientDev, serverDev) ==
    \/ clientTs > serverTs
    \/ clientTs = serverTs /\ clientDev > serverDev

\* The update `in` carries clientFields, written over baseVersion; the server
\* has changed fieldsSince after that version.
ResolveUpdate(in, sensitive) ==
    LET fields     == in.clientFields
        collisions == fields \cap in.fieldsSince
        upToDate   == in.baseVersion # 0 /\ in.baseVersion = in.serverVersion
        wins       == ClientWins(in.clientTs, in.serverTs, in.clientDev, in.serverDev)
    IN CASE in.serverDeleted                -> Outcome("ignore", {})
         [] ~in.serverDeleted /\ fields = {} -> Outcome("ignore", {})
         [] ~in.serverDeleted /\ fields # {} /\ upToDate
              -> Outcome("apply", fields)
         [] ~in.serverDeleted /\ fields # {} /\ ~upToDate /\ collisions \cap sensitive # {}
              -> Outcome("manual", collisions \cap sensitive)
         [] OTHER
              -> IF wins \/ collisions = {} THEN Outcome("merge", fields)
                 ELSE IF fields \ collisions = {} THEN Outcome("ignore", {})
                 ELSE Outcome("merge", fields \ collisions)
=============================================================================
