--------------------------- MODULE ApprovalLedger ---------------------------
(***************************************************************************)
(* What the stub promises about approvals, with no process, no file and no *)
(* restart in it: a right is entered in a ledger once, under an id of its  *)
(* own; a "once" right is struck out by the one use that is made of it; an *)
(* "always" right is never struck out, and using it leaves no trace.       *)
(*                                                                         *)
(* The entry of a right is firm, or it is not: a start of the stub forgets *)
(* those that are not, as it does an approval whose file was not written.  *)
(*                                                                         *)
(* The promise is the one of the comment on ConsumeApproval and of the     *)
(* README's permission model.  StubPermission implements it where files    *)
(* can be removed and ids are not shared (StubPermissionProofs).           *)
(***************************************************************************)
CONSTANTS
  Ids,      \* ids of rights
  Rights,   \* rights: records with a field mode
  None      \* no right under this id

VARIABLES
  ledger,   \* ledger[i]: the right in force under i, or None
  firm,     \* ids whose entry outlasts a start
  spent     \* ids whose right has been used up

vars == <<ledger, firm, spent>>

Init ==
  /\ ledger = [i \in Ids |-> None]
  /\ firm = {} /\ spent = {}

(* A user grants a right; a spent id never stands for a right again.       *)
Issue(i, r) ==
  /\ ledger[i] = None /\ i \notin spent
  /\ ledger' = [ledger EXCEPT ![i] = r]
  /\ firm' \in {firm, firm \cup {i}}
  /\ UNCHANGED spent

(* A command passes under a "once" right, which is gone thereafter.        *)
Spend(i) ==
  /\ ledger[i] # None /\ ledger[i].mode = "once"
  /\ ledger' = [ledger EXCEPT ![i] = None]
  /\ firm' = firm \ {i}
  /\ spent' = spent \cup {i}

(* What is not firm is forgotten, all at once.                             *)
Forget ==
  /\ ledger' = [i \in Ids |-> IF i \in firm THEN ledger[i] ELSE None]
  /\ UNCHANGED <<firm, spent>>

Next ==
  \/ \E i \in Ids, r \in Rights : Issue(i, r)
  \/ \E i \in Ids : Spend(i)
  \/ Forget

Spec == Init /\ [][Next]_vars
=============================================================================
