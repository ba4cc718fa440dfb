----------------------------- MODULE MCAccounts -----------------------------
(***************************************************************************)
(* Sessions, project members and annotations in one run: `part' picks the  *)
(* part that takes all the steps of a behaviour.  The parts share no       *)
(* variable and no property speaks of two of them, so what holds of each   *)
(* part's own steps holds of every interleaving of the parts.              *)
(***************************************************************************)
EXTENDS AuthSessions, ProjectMembers, Annotations, TLC

VARIABLE part

CONSTANTS a1, a2, a3, c1, c2

AccountsInit ==
    /\ part \in {"auth", "members", "notes"}
    /\ AuthInit /\ Init /\ NotesInit

Only(p, next, others) == part = p /\ next /\ UNCHANGED <<part, others>>

AccountsNext ==
    \/ Only("auth", AuthNext, <<vars, noteVars>>)
    \/ Only("members", Next, <<authVars, noteVars>>)
    \/ Only("notes", NotesNext, <<authVars, vars>>)

AccountsSpec ==
    AccountsInit /\ [][AccountsNext]_<<part, authVars, vars, noteVars>>

Symmetry == Permutations({a1, a2}) \cup Permutations({c1, c2})
=============================================================================
