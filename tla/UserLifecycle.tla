--------------------------- MODULE UserLifecycle ---------------------------
(***************************************************************************)
(* What the panel promises of the status of its users, whoever writes it   *)
(* and in however many statements: which transitions there are, what the   *)
(* columns have to say for each, and that a user without access has either *)
(* a reason in the columns, somebody about to look again, or a pardon.     *)
(***************************************************************************)
EXTENDS Naturals

CONSTANT Users

VARIABLES
    now,
    status, limit, used, expireAt,     \* the columns of the users
    limitChecks,   \* users whose traffic a job under way will look at again
    dateChecks,    \* users whose date a job under way will look at again
    pardoned       \* users whose status may be wrong, for a reason that is known

life == <<now, status, limit, used, expireAt, limitChecks, dateChecks, pardoned>>

OverLimit(u) == limit[u] # 0 /\ used[u] >= limit[u]

Justified(u) ==
    /\ status[u] = "LIMITED" => OverLimit(u) \/ u \in limitChecks \cup pardoned
    /\ status[u] = "EXPIRED" => expireAt[u] <= now \/ u \in dateChecks \cup pardoned

Init ==
    /\ now = 0
    /\ status = [u \in Users |-> "NONE"]
    /\ limit = [u \in Users |-> 0]
    /\ used = [u \in Users |-> 0]
    /\ expireAt = [u \in Users |-> 0]
    /\ limitChecks = {} /\ dateChecks = {} /\ pardoned = {}

-----------------------------------------------------------------------------
Columns(u) == <<limit[u], used[u], expireAt[u]>>
Row(u)     == <<status[u], Columns(u)>>
Only(S)    == now' = now /\ \A u \in Users \ S : Row(u)' = Row(u)

Live == {"ACTIVE", "LIMITED", "EXPIRED", "DISABLED"}

Tick ==
    /\ now' = now + 1
    /\ \A u \in Users : Row(u)' = Row(u)

Enroll(u) ==
    /\ Only({u})
    /\ status[u] = "NONE" /\ status'[u] \in Live /\ used'[u] = 0

\* What is asked for, for one user.  Nobody asks for LIMITED or EXPIRED; LIMITED is
\* only written back over a row that changed since it was read.
Decide(u) ==
    /\ Only({u})
    /\ status[u] \in Live
    /\ \/ status'[u] \in {status[u], "ACTIVE", "DISABLED"}
       \/ status'[u] = "LIMITED" /\ u \in pardoned'
    /\ used'[u] \in {used[u], 0}

Remove(S) ==
    /\ Only(S)
    /\ \A u \in S : status[u] \in Live /\ status'[u] = "DELETED"

Prolong(S) ==
    /\ Only(S)
    /\ \A u \in S : /\ expireAt'[u] > expireAt[u]
                    /\ <<status[u], limit[u], used[u]>>' = <<status[u], limit[u], used[u]>>

Spend(S) ==
    /\ Only(S)
    /\ \A u \in S : /\ used'[u] > used[u]
                    /\ <<status[u], limit[u], expireAt[u]>>' = <<status[u], limit[u], expireAt[u]>>

Clear(S) ==
    /\ Only(S)
    /\ \A u \in S : /\ used'[u] = 0
                    /\ <<status[u], limit[u], expireAt[u]>>' = <<status[u], limit[u], expireAt[u]>>

\* The watchdog takes all it finds, and never a disabled user.
Expire ==
    LET S == {u \in Users : status[u] \in {"ACTIVE", "LIMITED"} /\ expireAt[u] < now} IN
    /\ Only(S)
    /\ \A u \in S : status'[u] = "EXPIRED" /\ Columns(u)' = Columns(u)

Exceed ==
    LET S == {u \in Users : status[u] = "ACTIVE" /\ OverLimit(u)} IN
    /\ Only(S)
    /\ \A u \in S : status'[u] = "LIMITED" /\ Columns(u)' = Columns(u)

\* Access is given back by a job, to those who then have traffic or time left.
Restore(S) ==
    /\ Only(S)
    /\ \A u \in S :
         /\ status'[u] = "ACTIVE" /\ limit'[u] = limit[u] /\ expireAt'[u] = expireAt[u]
         /\ \/ status[u] = "LIMITED" /\ ~OverLimit(u)' /\ used'[u] \in {used[u], 0}
            \/ status[u] = "EXPIRED" /\ expireAt[u] > now /\ used'[u] = used[u]

\* A job begins, goes on or fails, and touches no row.
Proceed == Only({})

Change ==
    \/ Tick \/ Proceed \/ Expire \/ Exceed
    \/ \E u \in Users : Enroll(u) \/ Decide(u)
    \/ \E S \in SUBSET Users : Remove(S) \/ Prolong(S) \/ Spend(S) \/ Clear(S) \/ Restore(S)

\* A pardon ends with the user.
Pardons == \A u \in pardoned : u \in pardoned' \/ status'[u] = "DELETED"

Next == Change /\ Pardons /\ \A u \in Users : Justified(u)'

Spec == Init /\ [][Next]_life
=============================================================================
