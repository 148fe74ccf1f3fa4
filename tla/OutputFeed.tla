----------------------------- MODULE OutputFeed -----------------------------
(***************************************************************************)
(* What runner.Stream promises the consumer about a command's output: it   *)
(* is handed over piece by piece, all of it, and its end says how the      *)
(* command ended.  Output the command finished ends as a whole; output of  *)
(* a command that was ended ends as cut.  Without signals (Windows) a      *)
(* command that failed near its deadline may be taken for one that was     *)
(* ended, never the other way round.                                       *)
(***************************************************************************)
EXTENDS Naturals

CONSTANT Certain  \* whether a command ended from outside shows as such

VARIABLES printed,  \* pieces the command has printed
          given,    \* pieces the consumer has been given
          verdict,  \* "open" until the output ends, then "whole" or "cut"
          fate      \* "running", "self" (the command ended) or "ended" (it was ended)

Init == printed = 0 /\ given = 0 /\ verdict = "open" /\ fate = "running"

Prints == /\ fate = "running" /\ printed' = printed + 1
         /\ UNCHANGED <<given, verdict, fate>>

Stop == /\ fate = "running" /\ fate' \in {"self", "ended"}
        /\ UNCHANGED <<printed, given, verdict>>

Give == /\ verdict = "open" /\ given < printed /\ given' = given + 1
        /\ UNCHANGED <<printed, verdict, fate>>

Close ==
  /\ verdict = "open" /\ fate # "running" /\ given = printed
  /\ verdict' \in CASE fate = "ended" -> {"cut"}
                    [] fate = "self" /\ Certain -> {"whole"}
                    [] OTHER -> {"whole", "cut"}
  /\ UNCHANGED <<printed, given, fate>>

Next == Prints \/ Stop \/ Give \/ Close

vars == <<printed, given, verdict, fate>>

Spec == Init /\ [][Next]_vars
=============================================================================
