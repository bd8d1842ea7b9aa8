------------------------------- MODULE Trust -------------------------------
(***************************************************************************)
(* What the approvals promise, without goroutines, statements or caches:   *)
(* trust is granted, disabled, enabled and revoked for good, and whoever   *)
(* is allowed something is allowed it, at one moment, by trust that was    *)
(* active at that moment and covers it.  The log holds what was decided;   *)
(* an allowance that does not reach the log is void.                       *)
(*                                                                         *)
(* Gate implements this specification: the moment is the match, or the     *)
(* creation of the approval an import allows on, although the use, the     *)
(* import rows and the audit row are written later and one by one.         *)
(***************************************************************************)
EXTENDS Naturals, Sequences

CONSTANTS
    Askers,          \* who asks
    Acts,            \* what is asked for
    Covers(_, _),    \* does this trust cover that act?
    Nothing          \* no allowance

VARIABLES
    trust,     \* the trust granted so far, in order: records with a state
    allowed,   \* allowed[a]: the allowance a holds that is not in the log
    log        \* the decisions on record: the allowance, or Nothing

vars == <<trust, allowed, log>>

States == {"ACTIVE", "DISABLED", "REVOKED"}

Allowance(act, i) == [act |-> act, by |-> i]

Init ==
    /\ trust = <<>>
    /\ allowed = [a \in Askers |-> Nothing]
    /\ log = <<>>

\* New trust is active, whatever it covers.
Grant ==
    /\ Len(trust') = Len(trust) + 1
    /\ SubSeq(trust', 1, Len(trust)) = trust
    /\ trust'[Len(trust')].state = "ACTIVE"

\* What is trusted never changes, and revocation is for good.
Change ==
    \E i \in DOMAIN trust, state \in States :
        /\ trust[i].state # "REVOKED"
        /\ trust' = [trust EXCEPT ![i] = [@ EXCEPT !.state = state]]

Allow(a) ==
    /\ allowed[a] = Nothing
    /\ \E i \in DOMAIN trust, act \in Acts :
        /\ trust[i].state = "ACTIVE" /\ Covers(trust[i], act)
        /\ allowed' = [allowed EXCEPT ![a] = Allowance(act, i)]

\* The asker brings consent of its own: trust is granted and used at once.
Import(a) ==
    /\ allowed[a] = Nothing
    /\ Grant
    /\ \E act \in Acts :
        /\ Covers(trust'[Len(trust')], act)
        /\ allowed' = [allowed EXCEPT ![a] = Allowance(act, Len(trust'))]

Record(a) ==
    /\ allowed[a] # Nothing
    /\ allowed' = [allowed EXCEPT ![a] = Nothing]
    /\ log' = Append(log, allowed[a])

\* A decision that rests on no trust.
RecordOther == log' = Append(log, Nothing)

\* A failure voids an allowance, a crash all of them.
Void(a) == allowed' = [allowed EXCEPT ![a] = Nothing]

VoidAll == allowed' = [a \in Askers |-> Nothing]

Next ==
    \/ /\ UNCHANGED <<trust, log>>
       /\ VoidAll \/ \E a \in Askers : Void(a) \/ Allow(a)
    \/ /\ UNCHANGED <<trust, allowed>>
       /\ RecordOther
    \/ /\ UNCHANGED trust
       /\ \E a \in Askers : Record(a)
    \/ /\ UNCHANGED <<allowed, log>>
       /\ Grant \/ Change
    \/ /\ UNCHANGED log
       /\ \E a \in Askers : Import(a)

Spec == Init /\ [][Next]_vars
=============================================================================
