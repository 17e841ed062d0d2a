--------------------------- MODULE SignIn_proofs ---------------------------
(***************************************************************************)
(* Proofs about SignIn, for any number of attempts, updates, usernames and *)
(* changes of the settings: the type invariant, that some method stays     *)
(* enabled, that two admins come only of registrations allowed together,   *)
(* and that a sign-in nothing came between succeeds.                       *)
(***************************************************************************)
EXTENDS SignIn, SequenceTheorems, TLAPS

Admin == [name: Names, by: Attempts \cup {None}]

\* TypeOK but for whose the states in Redis are, which Owned says.
Typed ==
    /\ admins \in Seq(Admin)
    /\ settings \subseteq Methods
    /\ cached \in (SUBSET Methods) \cup {NotCached}
    /\ state \in [Stateful -> Attempts \cup {None}]
    /\ verifier \in [Pkce -> Attempts \cup {None}]
    /\ attempt \in [Attempts -> Attempt]
    /\ update \in [Updates -> Update]
    /\ disturbed \subseteq Attempts
    /\ early \subseteq Attempts
    /\ excuse \subseteq {"raced", "upgrade", "together"}

\* A passkey is added by an edit, but for the one there may be at the start.
Counted == edits \in 0..MaxEdits /\ passkeys \in Nat /\ passkeys <= edits + 1

\* An attempt that is under way is at a step of its own method.  A registration
\* began while there was no admin.
Placed ==
    \A a \in Attempts : Underway(a) =>
        \/ attempt[a].pc = "create" /\ attempt[a].how = "register"
           /\ attempt[a].name \in Names /\ a \in early
        \/ attempt[a].pc = "verifier" /\ attempt[a].how \in Pkce
        \/ attempt[a].pc \in {"state", "away", "read", "compare"} /\ attempt[a].how \in Stateful

\* A state is kept for a method by attempts of that method.
Owned ==
    \A m \in Stateful : state[m] # None =>
        attempt[state[m]].how = m /\ attempt[state[m]].pc # "idle"

\* What an update is about to write leaves a method, by the settings it has seen.
Merges ==
    \A u \in Updates : update[u].pc = "write" =>
        Merged(update[u].seen, update[u].columns, update[u].methods) # {}

\* Nothing stands in the way of a sign-in: its method is enabled, and the panel
\* remembers it.
OnTrack(a) ==
    LET m == attempt[a].how IN
    /\ m \in Seen
    /\ IF m = "passkey" THEN passkeys > 0 /\ Len(admins) > 0 ELSE Len(admins) = 1
    /\ attempt[a].pc \in {"away", "read"} => state[m] = a
    /\ attempt[a].pc = "compare" => attempt[a].state = a
    /\ m \in Pkce =>
         /\ attempt[a].pc \in {"state", "away", "read"} => verifier[m] = a
         /\ attempt[a].pc = "compare" => attempt[a].verifier = a

\* That is so of every sign-in nothing came between.
Tracked(a) ==
    attempt[a].how # "register" /\ a \notin disturbed =>
        /\ attempt[a].pc # "failed"
        /\ Underway(a) => OnTrack(a)

AllTracked == \A a \in Attempts : Tracked(a)

SomeLeft == settings # {} \/ excuse \cap {"raced", "upgrade"} # {}

IInv == Typed /\ Counted /\ Placed /\ Owned

-----------------------------------------------------------------------------
(* Types *)

LEMMA StatefulFacts ==
    /\ Pkce \subseteq OAuth /\ OAuth \subseteq Stateful /\ "passkey" \in Stateful
    /\ "password" \notin Stateful /\ "register" \notin Stateful /\ "passkey" \notin OAuth
BY DEF Pkce, OAuth, Stateful

LEMMA NoAttemptType == NoAttempt \in Attempt /\ NoUpdate \in Update
BY DEF NoAttempt, Attempt, NoUpdate, Update

LEMMA TypesFollow == IInv => TypeOK
<1> SUFFICES ASSUME IInv PROVE TypeOK
  OBVIOUS
<1>1. passkeys \in 0..MaxEdits + 1 /\ edits \in 0..MaxEdits
  BY BoundsAssumption DEF IInv, Counted
<1>2. \A m \in Stateful : state[m] # None => attempt[state[m]].how = m
  BY DEF IInv, Owned
<1> QED BY <1>1, <1>2 DEF IInv, Typed, TypeOK, Admin

LEMMA SeenType == Typed => Seen \subseteq Methods
BY DEF Typed, Seen, NotCached

\* Reading the settings through the cache changes neither them nor what is seen.
LEMMA LookKeeps ==
    ASSUME Typed, Look, UNCHANGED settings
    PROVE  Seen' = Seen /\ cached' \in (SUBSET Methods) \cup {NotCached}
<1>1. Seen \subseteq Methods
  BY SeenType
<1> QED BY <1>1 DEF Look, Seen, NotCached

\* Only the attempt at work changes, and it changes like this.
LEMMA GotoType ==
    ASSUME Typed, NEW a \in Attempts,
           NEW pc \in {"create", "verifier", "state", "away", "read", "compare", "in", "failed"},
           Goto(a, pc)
    PROVE  /\ attempt' \in [Attempts -> Attempt]
           /\ attempt'[a] = [attempt[a] EXCEPT !.pc = pc]
           /\ attempt'[a].pc = pc /\ attempt'[a].how = attempt[a].how
           /\ \A b \in Attempts \ {a} : attempt'[b] = attempt[b]
<1>1. [attempt[a] EXCEPT !.pc = pc] \in Attempt
  BY DEF Typed, Attempt
<1> QED BY <1>1 DEF Typed, Goto, Attempt

LEMMA BeginType ==
    ASSUME Typed, NEW a \in Attempts, NEW how \in Stateful \cup {"register", "password"},
           NEW n \in Names \cup {None},
           NEW pc \in {"create", "verifier", "state", "in"}, Begin(a, how, n, pc)
    PROVE  /\ attempt' \in [Attempts -> Attempt]
           /\ attempt[a].pc = "idle"
           /\ attempt'[a].pc = pc /\ attempt'[a].how = how /\ attempt'[a].name = n
           /\ \A b \in Attempts \ {a} : attempt'[b] = attempt[b]
<1>1. attempt' = [attempt EXCEPT ![a] = [attempt[a] EXCEPT !.pc = pc, !.how = how, !.name = n]]
  BY DEF Begin
<1>2. [attempt[a] EXCEPT !.pc = pc, !.how = how, !.name = n] \in Attempt
  <2>1. attempt[a] \in Attempt
    BY DEF Typed
  <2> QED BY <2>1 DEF Attempt
<1> QED BY <1>1, <1>2 DEF Typed, Begin, Attempt

-----------------------------------------------------------------------------
(* Admins, settings and the rest keep their types *)

LEMMA RemoveAdmin ==
    ASSUME NEW s \in Seq(Admin), NEW i \in DOMAIN s
    PROVE  /\ SubSeq(s, 1, i - 1) \o SubSeq(s, i + 1, Len(s)) \in Seq(Admin)
           /\ Len(SubSeq(s, 1, i - 1) \o SubSeq(s, i + 1, Len(s))) = Len(s) - 1
<1>1. Len(s) \in Nat /\ i \in 1..Len(s) /\ \A j \in 1..Len(s) : s[j] \in Admin
  BY LenProperties, ElementOfSeq
<1>2. /\ SubSeq(s, 1, i - 1) \in Seq(Admin)
      /\ Len(SubSeq(s, 1, i - 1)) = IF 1 <= i - 1 THEN i - 1 - 1 + 1 ELSE 0
  <2>1. \A j \in 1..(i - 1) : s[j] \in Admin
    BY <1>1
  <2> QED BY <1>1, <2>1, SubSeqProperties
<1>3. /\ SubSeq(s, i + 1, Len(s)) \in Seq(Admin)
      /\ Len(SubSeq(s, i + 1, Len(s))) = IF i + 1 <= Len(s) THEN Len(s) - (i + 1) + 1 ELSE 0
  <2>1. \A j \in (i + 1)..Len(s) : s[j] \in Admin
    BY <1>1
  <2> QED BY <1>1, <2>1, SubSeqProperties
<1>4. /\ SubSeq(s, 1, i - 1) \o SubSeq(s, i + 1, Len(s)) \in Seq(Admin)
      /\ Len(SubSeq(s, 1, i - 1) \o SubSeq(s, i + 1, Len(s)))
           = Len(SubSeq(s, 1, i - 1)) + Len(SubSeq(s, i + 1, Len(s)))
  BY <1>2, <1>3, ConcatProperties
<1> QED BY <1>1, <1>2, <1>3, <1>4

LEMMA KeepOldest ==
    ASSUME NEW s \in Seq(Admin)
    PROVE  LET t == SubSeq(s, 1, IF Len(s) > 1 THEN 1 ELSE Len(s)) IN
           t \in Seq(Admin) /\ Len(t) <= 1
<1>1. Len(s) \in Nat /\ \A j \in 1..Len(s) : s[j] \in Admin
  BY LenProperties, ElementOfSeq
<1> DEFINE n == IF Len(s) > 1 THEN 1 ELSE Len(s)
<1>2. n \in {0, 1} /\ n <= Len(s)
  BY <1>1, SMTT(30)
<1> HIDE DEF n
<1>3. \A j \in 1..n : s[j] \in Admin
  BY <1>1, <1>2
<1>4. SubSeq(s, 1, n) \in Seq(Admin) /\ Len(SubSeq(s, 1, n)) = IF 1 <= n THEN n - 1 + 1 ELSE 0
  BY <1>2, <1>3, SubSeqProperties
<1>5. SubSeq(s, 1, n) \in Seq(Admin) /\ Len(SubSeq(s, 1, n)) <= 1
  BY <1>2, <1>4
<1> QED BY <1>5 DEF n

LEMMA InitIInv == Init => IInv
<1> SUFFICES ASSUME Init PROVE IInv
  OBVIOUS
<1>1. admins \in Seq(Admin)
  <2>1. ASSUME NEW n \in Names PROVE <<[name |-> n, by |-> None]>> \in Seq(Admin)
    BY DEF Admin
  <2>2. admins = <<>> \/ \E n \in Names : admins = <<[name |-> n, by |-> None]>>
    BY DEF Init
  <2> QED BY <2>1, <2>2, EmptySeq
<1>2. settings \subseteq Methods
  BY MethodsAssumption DEF Init
<1>3. Typed
  BY <1>1, <1>2, NoAttemptType DEF Init, Typed
<1>4. Counted
  BY BoundsAssumption DEF Init, Counted
<1>5. Placed /\ Owned
  BY DEF Init, Placed, Owned, Underway, NoAttempt
<1> QED BY <1>3, <1>4, <1>5 DEF IInv

\* A registration, a password, and the steps of a sign-in that leaves the panel.
LEMMA AttemptTyped ==
    ASSUME IInv, NEW a \in Attempts, AttemptStep(a)
    PROVE  Typed' /\ Counted'
<1> USE DEF IInv
<1>0. attempt[a] \in Attempt /\ None \in Names \cup {None}
  BY DEF Typed
<1>1. ASSUME NEW n \in Names, Register(a, n) PROVE Typed' /\ Counted'
  <2>1. Begin(a, "register", n, "create") /\ Look /\ UNCHANGED settings
    BY <1>1 DEF Register
  <2>2. attempt' \in [Attempts -> Attempt]
    BY <2>1, BeginType
  <2> QED BY <1>1, <2>1, <2>2, LookKeeps DEF Register, Typed, Counted
<1>2. ASSUME NEW m \in Methods, Authorize(a, m) PROVE Typed' /\ Counted'
  <2>1. Begin(a, m, None, IF m \in Pkce THEN "verifier" ELSE "state") /\ Look /\ UNCHANGED settings
        /\ m \in Stateful
    BY <1>2, StatefulFacts DEF Authorize
  <2>2. attempt' \in [Attempts -> Attempt]
    BY <2>1, BeginType
  <2> QED BY <1>2, <2>1, <2>2, LookKeeps DEF Authorize, Typed, Counted
<1>3. CASE Login(a) \/ PasskeyOptions(a)
  <2>1. \/ Begin(a, "password", None, "in")
        \/ Begin(a, "passkey", None, "state")
    BY <1>3 DEF Login, PasskeyOptions
  <2>2. attempt' \in [Attempts -> Attempt]
    BY <2>1, BeginType, StatefulFacts
  <2>3. Look /\ UNCHANGED settings
    BY <1>3 DEF Login, PasskeyOptions
  <2> QED BY <1>3, <2>2, <2>3, LookKeeps DEF Login, PasskeyOptions, Typed, Counted
<1>4. CASE CreateAdmin(a)
  <2>1. Goto(a, "failed") \/ Goto(a, "in")
    BY <1>4 DEF CreateAdmin
  <2>2. attempt' \in [Attempts -> Attempt]
    BY <2>1, GotoType
  <2>3. [name |-> attempt[a].name, by |-> a] \in Admin
    BY <1>0, <1>4 DEF CreateAdmin, Placed, Underway, Admin
  <2>4. admins' \in Seq(Admin)
    <3>1. admins' \in {admins, Append(admins, [name |-> attempt[a].name, by |-> a])}
      BY <1>4 DEF CreateAdmin
    <3> QED BY <2>3, <3>1, AppendProperties, SMTT(30) DEF Typed
  <2>5. disturbed' \subseteq Attempts /\ excuse' \subseteq {"raced", "upgrade", "together"}
    <3>1. CASE UNCHANGED <<disturbed, excuse>>
      BY <3>1 DEF Typed
    <3>2. CASE /\ disturbed' = disturbed \cup {b \in Attempts : Underway(b)}
               /\ excuse' = excuse \cup {"together" : i \in {j \in DOMAIN admins : a \in early}}
      BY <3>2 DEF Typed
    <3> QED BY <1>4, <3>1, <3>2 DEF CreateAdmin
  <2> QED BY <1>4, <2>2, <2>4, <2>5 DEF CreateAdmin, Typed, Counted
<1>5. CASE SetVerifier(a)
  <2>1. attempt' \in [Attempts -> Attempt] /\ attempt[a].how \in Pkce
    BY <1>5, GotoType DEF SetVerifier, Placed, Underway
  <2> QED BY <1>5, <2>1 DEF SetVerifier, Typed, Counted, Others
<1>6. CASE SetState(a)
  <2>1. attempt' \in [Attempts -> Attempt] /\ attempt[a].how \in Stateful
    BY <1>6, GotoType DEF SetState, Placed, Underway
  <2> QED BY <1>6, <2>1 DEF SetState, Typed, Counted, Others
<1>7. CASE Return(a)
  <2>1. Goto(a, "read") \/ Goto(a, "failed")
    BY <1>7 DEF Return
  <2>2. attempt' \in [Attempts -> Attempt]
    BY <2>1, GotoType
  <2> QED BY <1>7, <2>2, LookKeeps DEF Return, Typed, Counted
<1>8. CASE Read(a)
  <2> DEFINE m == attempt[a].how
             v == IF m \in Pkce THEN verifier[m] ELSE None
  <2>1. m \in Stateful /\ state[m] \in Attempts \cup {None} /\ v \in Attempts \cup {None}
    BY <1>8 DEF Read, Placed, Underway, Typed, Pkce, Stateful, OAuth
  <2>2. attempt' = [attempt EXCEPT ![a] = [attempt[a] EXCEPT !.pc = "compare", !.state = state[m],
                                                            !.verifier = v]]
    BY <1>8 DEF Read
  <2> HIDE DEF m, v
  <2>3. [attempt[a] EXCEPT !.pc = "compare", !.state = state[m], !.verifier = v] \in Attempt
    BY <1>0, <2>1 DEF Attempt
  <2> QED BY <1>8, <2>2, <2>3 DEF Read, Typed, Counted
<1>9. CASE Finish(a)
  <2> DEFINE m == attempt[a].how
  <2>1. m \in Stateful
    BY <1>9 DEF Finish, Placed, Underway, Pkce, Stateful, OAuth
  <2>2. \A pc \in {"in", "failed"} : [NoAttempt EXCEPT !.how = m, !.pc = pc] \in Attempt
    BY <2>1, NoAttemptType DEF Attempt
  <2>3. attempt' = [attempt EXCEPT ![a] = [NoAttempt EXCEPT !.how = m, !.pc = attempt'[a].pc]]
        /\ attempt'[a].pc \in {"in", "failed"}
    BY <1>9 DEF Finish, Typed, NoAttempt
  <2>4. state' \in [Stateful -> Attempts \cup {None}] /\ verifier' \in [Pkce -> Attempts \cup {None}]
        /\ disturbed' \subseteq Attempts
    BY <1>9, <2>1 DEF Finish, Typed, Others
  <2> HIDE DEF m
  <2> QED BY <1>9, <2>2, <2>3, <2>4 DEF Finish, Typed, Counted
<1> QED BY <1>1, <1>2, <1>3, <1>4, <1>5, <1>6, <1>7, <1>8, <1>9 DEF AttemptStep

LEMMA UpdateTyped ==
    ASSUME Typed, NEW u \in Updates, UpdateRead(u) \/ UpdateWrite(u) \/ UpdateDel(u)
    PROVE  Typed'
<1>0. update[u] \in Update
  BY DEF Typed
<1>1. CASE UpdateRead(u)
  <2>1. PICK G \in Bodies, M \in SUBSET Methods :
          update' = [update EXCEPT ![u] =
                [pc |-> "write", columns |-> G, methods |-> M, seen |-> settings]]
    BY <1>1 DEF UpdateRead
  <2>2. [pc |-> "write", columns |-> G, methods |-> M, seen |-> settings] \in Update
    BY DEF Typed, Update, Bodies
  <2> QED BY <1>1, <2>1, <2>2 DEF UpdateRead, Typed
<1>2. CASE UpdateWrite(u)
  <2>1. [update[u] EXCEPT !.pc = "del"] \in Update /\ update[u].methods \subseteq Methods
    BY <1>0 DEF Update
  <2>2. settings' \subseteq Methods /\ disturbed' \subseteq Attempts
        /\ excuse' \subseteq {"raced", "upgrade", "together"}
    BY <1>2, <2>1 DEF UpdateWrite, Typed, Merged, Disabled
  <2> QED BY <1>2, <2>1, <2>2 DEF UpdateWrite, Typed
<1>3. CASE UpdateDel(u)
  <2>1. [NoUpdate EXCEPT !.pc = "done"] \in Update
    BY NoAttemptType DEF Update
  <2> QED BY <1>3, <2>1 DEF UpdateDel, Typed, Disabled
<1> QED BY <1>1, <1>2, <1>3

\* Expiry, passkeys, a deleted admin and a restart.
Between ==
    \/ \E m \in Stateful : Expire(m)
    \/ AddPasskey \/ DeletePasskey \/ ResetSuperadmin
    \/ \E B \in SUBSET (settings \ {"password"}) : Restart(B)

LEMMA BetweenTyped == ASSUME IInv, Between PROVE Typed' /\ Counted'
<1> USE DEF IInv
<1>1. ASSUME NEW m \in Stateful, Expire(m) PROVE Typed' /\ Counted'
  BY <1>1, BoundsAssumption DEF Expire, Edit, Typed, Counted
<1>2. CASE AddPasskey
  <2>1. cached' \in (SUBSET Methods) \cup {NotCached}
    BY <1>2, LookKeeps DEF AddPasskey
  <2> QED BY <1>2, <2>1, BoundsAssumption DEF AddPasskey, Edit, Typed, Counted
<1>3. CASE DeletePasskey
  BY <1>3, BoundsAssumption DEF DeletePasskey, Edit, Typed, Counted
<1>4. CASE ResetSuperadmin
  <2>1. admins' \in Seq(Admin)
    BY <1>4, RemoveAdmin DEF ResetSuperadmin, Typed
  <2> QED BY <1>4, <2>1, BoundsAssumption DEF ResetSuperadmin, Edit, Typed, Counted
<1>5. ASSUME NEW B \in SUBSET (settings \ {"password"}), Restart(B) PROVE Typed' /\ Counted'
  <2>1. admins' \in Seq(Admin)
    BY <1>5, KeepOldest DEF Restart, Typed
  <2>2. settings' \subseteq Methods /\ excuse' \subseteq {"raced", "upgrade", "together"}
    BY <1>5, MethodsAssumption DEF Restart, Typed
  <2>3. ASSUME NEW a \in Attempts PROVE attempt'[a] \in Attempt
    <3>1. [NoAttempt EXCEPT !.pc = "failed", !.how = attempt[a].how] \in Attempt
      BY NoAttemptType DEF Typed, Attempt
    <3> QED BY <1>5, <3>1 DEF Restart, Typed
  <2>4. ASSUME NEW u \in Updates PROVE update'[u] \in Update
    <3>1. [NoUpdate EXCEPT !.pc = "done"] \in Update
      BY NoAttemptType DEF Update
    <3> QED BY <1>5, <3>1, NoAttemptType DEF Restart
  <2>5. attempt' \in [Attempts -> Attempt] /\ update' \in [Updates -> Update]
    BY <1>5, <2>3, <2>4 DEF Restart
  <2>6. Typed'
    BY <1>5, <2>1, <2>2, <2>5 DEF Restart, Typed, Underway
  <2>7. Counted'
    <3>1. edits' = edits + 1 /\ edits < MaxEdits /\ passkeys' = passkeys
      BY <1>5 DEF Restart, Edit
    <3> QED BY <3>1, BoundsAssumption DEF Counted
  <2> QED BY <2>6, <2>7
<1> QED BY <1>1, <1>2, <1>3, <1>4, <1>5 DEF Between

\* The steps there are.
LEMMA Steps ==
    ASSUME [Next]_vars
    PROVE  \/ \E a \in Attempts : AttemptStep(a)
           \/ \E u \in Updates : UpdateRead(u) \/ UpdateWrite(u) \/ UpdateDel(u)
           \/ Between
           \/ UNCHANGED vars
BY DEF Next, Between

-----------------------------------------------------------------------------
(* Where attempts are, and whose the states are *)

\* A step of an attempt leaves the others alone, keeps its method once it has one,
\* and is a step of that method.
LEMMA AttemptMoves ==
    ASSUME IInv, NEW a \in Attempts, AttemptStep(a)
    PROVE  /\ \A b \in Attempts \ {a} : attempt'[b] = attempt[b]
           /\ attempt'[a].pc # "idle"
           /\ attempt[a].pc # "idle" => attempt'[a].how = attempt[a].how
           /\ early \subseteq early'
           /\ \/ attempt'[a].pc \in {"in", "failed"}
              \/ /\ attempt'[a].pc = "create" /\ attempt'[a].how = "register"
                 /\ attempt'[a].name \in Names /\ a \in early'
              \/ attempt'[a].pc = "verifier" /\ attempt'[a].how \in Pkce
              \/ attempt'[a].pc \in {"state", "away", "read", "compare"}
                 /\ attempt'[a].how \in Stateful
<1> USE DEF IInv
<1>0. attempt[a] \in Attempt
  BY DEF Typed
<1>1. ASSUME NEW n \in Names, Register(a, n)
      PROVE  /\ \A b \in Attempts \ {a} : attempt'[b] = attempt[b]
             /\ attempt[a].pc = "idle" /\ early \subseteq early'
             /\ attempt'[a].pc = "create" /\ attempt'[a].how = "register"
             /\ attempt'[a].name \in Names /\ a \in early'
  <2>1. Begin(a, "register", n, "create") /\ Len(admins) = 0 /\ early' = early \cup {b \in {a} : Len(admins) = 0}
    BY <1>1 DEF Register, RegisterAllowed
  <2>2. a \in early' /\ early \subseteq early'
    BY <2>1
  <2> QED BY <2>1, <2>2, BeginType
<1>2. ASSUME NEW m \in Methods, Authorize(a, m)
      PROVE  /\ \A b \in Attempts \ {a} : attempt'[b] = attempt[b]
             /\ attempt[a].pc = "idle" /\ early' = early
             /\ \/ attempt'[a].pc = "verifier" /\ attempt'[a].how \in Pkce
                \/ attempt'[a].pc = "state" /\ attempt'[a].how \in Stateful
  <2>1. Begin(a, m, None, IF m \in Pkce THEN "verifier" ELSE "state") /\ m \in Stateful
        /\ early' = early
    BY <1>2, StatefulFacts DEF Authorize
  <2> QED BY <2>1, BeginType
<1>3. ASSUME Login(a) \/ PasskeyOptions(a)
      PROVE  /\ \A b \in Attempts \ {a} : attempt'[b] = attempt[b]
             /\ attempt[a].pc = "idle" /\ early' = early
             /\ \/ attempt'[a].pc = "in"
                \/ attempt'[a].pc = "state" /\ attempt'[a].how \in Stateful
  <2>1. \/ Begin(a, "password", None, "in")
        \/ Begin(a, "passkey", None, "state")
    BY <1>3 DEF Login, PasskeyOptions
  <2> QED BY <1>3, <2>1, BeginType, StatefulFacts DEF Login, PasskeyOptions
<1>4. CASE CreateAdmin(a)
  <2>1. (Goto(a, "failed") \/ Goto(a, "in")) /\ early' = early
    BY <1>4 DEF CreateAdmin
  <2> QED BY <2>1, GotoType
<1>5. CASE SetVerifier(a)
  <2>1. Goto(a, "state") /\ early' = early /\ attempt[a].how \in Stateful
    BY <1>5, StatefulFacts DEF SetVerifier, Placed, Underway
  <2> QED BY <2>1, GotoType
<1>6. CASE SetState(a)
  <2>1. Goto(a, "away") /\ early' = early /\ attempt[a].how \in Stateful
    BY <1>6, StatefulFacts DEF SetState, Placed, Underway
  <2> QED BY <2>1, GotoType
<1>7. CASE Return(a)
  <2>1. (Goto(a, "read") \/ Goto(a, "failed")) /\ early' = early /\ attempt[a].how \in Stateful
    BY <1>7, StatefulFacts DEF Return, Placed, Underway
  <2> QED BY <2>1, GotoType
<1>8. CASE Read(a)
  <2>1. early' = early /\ attempt[a].how \in Stateful
    BY <1>8 DEF Read, Placed, Underway
  <2>2. attempt'[a].pc = "compare" /\ attempt'[a].how = attempt[a].how
        /\ \A b \in Attempts \ {a} : attempt'[b] = attempt[b]
    BY <1>0, <1>8 DEF Read, Typed, Attempt
  <2> QED BY <2>1, <2>2
<1>9. CASE Finish(a)
  <2>1. early' = early /\ attempt'[a].pc \in {"in", "failed"} /\ attempt'[a].how = attempt[a].how
        /\ \A b \in Attempts \ {a} : attempt'[b] = attempt[b]
    BY <1>0, <1>9 DEF Finish, Typed, NoAttempt
  <2> QED BY <2>1
<1> QED BY <1>1, <1>2, <1>3, <1>4, <1>5, <1>6, <1>7, <1>8, <1>9 DEF AttemptStep

\* The other steps end attempts at most.
LEMMA OthersEnd ==
    ASSUME IInv, [Next]_vars, ~\E a \in Attempts : AttemptStep(a)
    PROVE  /\ early' = early
           /\ \A a \in Attempts :
                 \/ attempt'[a] = attempt[a]
                 \/ /\ Underway(a) /\ a \in disturbed'
                    /\ attempt'[a].pc = "failed" /\ attempt'[a].how = attempt[a].how
<1>1. CASE UNCHANGED <<early, attempt>>
  BY <1>1
<1>2. ASSUME NEW u \in Updates, UpdateRead(u) \/ UpdateWrite(u) \/ UpdateDel(u)
      PROVE  UNCHANGED <<early, attempt>>
  BY <1>2 DEF UpdateRead, UpdateWrite, UpdateDel
<1>3. CASE \/ \E m \in Stateful : Expire(m)
           \/ AddPasskey \/ DeletePasskey \/ ResetSuperadmin
  BY <1>1, <1>3 DEF Expire, AddPasskey, DeletePasskey, ResetSuperadmin
<1>4. ASSUME NEW B, Restart(B)
      PROVE  /\ early' = early
             /\ \A a \in Attempts :
                 \/ attempt'[a] = attempt[a]
                 \/ /\ Underway(a) /\ a \in disturbed'
                    /\ attempt'[a].pc = "failed" /\ attempt'[a].how = attempt[a].how
  BY <1>4 DEF Restart, NoAttempt
<1> QED BY <1>1, <1>2, <1>3, <1>4, Steps DEF Between, vars

LEMMA PlacedStep ==
    ASSUME IInv, [Next]_vars
    PROVE  Placed'
<1> SUFFICES ASSUME NEW b \in Attempts, Underway(b)'
             PROVE  (\/ attempt[b].pc = "create" /\ attempt[b].how = "register"
                        /\ attempt[b].name \in Names /\ b \in early
                     \/ attempt[b].pc = "verifier" /\ attempt[b].how \in Pkce
                     \/ attempt[b].pc \in {"state", "away", "read", "compare"}
                        /\ attempt[b].how \in Stateful)'
  BY DEF Placed
<1>1. CASE attempt'[b] = attempt[b]
  <2>1. early \subseteq early'
    BY AttemptMoves, OthersEnd
  <2> QED BY <1>1, <2>1 DEF IInv, Placed, Underway
<1>2. CASE attempt'[b] # attempt[b]
  <2>1. CASE AttemptStep(b)
    BY <2>1, AttemptMoves DEF Underway
  <2>2. CASE ~AttemptStep(b)
    BY <1>2, <2>2, AttemptMoves, OthersEnd DEF Underway
  <2> QED BY <2>1, <2>2
<1> QED BY <1>1, <1>2

\* Once an attempt has begun, its method stays.
LEMMA MethodStays ==
    ASSUME IInv, [Next]_vars, NEW b \in Attempts, attempt[b].pc # "idle"
    PROVE  attempt'[b].how = attempt[b].how /\ attempt'[b].pc # "idle"
BY AttemptMoves, OthersEnd

\* What is kept for a method: what was, nothing, or an attempt of that method.
LEMMA StateMoves ==
    ASSUME IInv, [Next]_vars, NEW m \in Stateful
    PROVE  \/ state'[m] \in {state[m], None}
           \/ /\ state'[m] \in Attempts /\ attempt[state'[m]].how = m
              /\ attempt[state'[m]].pc = "state"
<1> USE DEF IInv
<1>1. CASE UNCHANGED state
  BY <1>1
<1>2. ASSUME NEW a \in Attempts, SetState(a)
      PROVE  \/ state'[m] = state[m]
             \/ state'[m] = a /\ attempt[a].how = m /\ attempt[a].pc = "state"
  BY <1>2 DEF SetState, Typed
<1>3. ASSUME NEW a \in Attempts, Finish(a)
      PROVE  state'[m] \in {state[m], None}
  BY <1>3 DEF Finish, Typed
<1>4. ASSUME NEW a \in Attempts, AttemptStep(a), ~SetState(a), ~Finish(a)
      PROVE  UNCHANGED state
  BY <1>4 DEF AttemptStep, Register, Authorize, CreateAdmin, Login, PasskeyOptions, SetVerifier,
     Return, Read
<1>5. ASSUME NEW u \in Updates, UpdateRead(u) \/ UpdateWrite(u) \/ UpdateDel(u)
      PROVE  UNCHANGED state
  BY <1>5 DEF UpdateRead, UpdateWrite, UpdateDel
<1>6. ASSUME Between
      PROVE  state'[m] \in {state[m], None}
  <2>1. ASSUME NEW k \in Stateful, Expire(k) PROVE state'[m] \in {state[m], None}
    BY <2>1 DEF Expire, Typed
  <2>2. ASSUME NEW B, Restart(B) PROVE state'[m] \in {state[m], None}
    BY <2>2 DEF Restart
  <2>3. CASE AddPasskey \/ DeletePasskey \/ ResetSuperadmin
    BY <2>3 DEF AddPasskey, DeletePasskey, ResetSuperadmin
  <2> QED BY <1>6, <2>1, <2>2, <2>3 DEF Between
<1> QED BY <1>1, <1>2, <1>3, <1>4, <1>5, <1>6, Steps DEF vars

LEMMA OwnedStep ==
    ASSUME IInv, [Next]_vars
    PROVE  Owned'
<1> SUFFICES ASSUME NEW m \in Stateful, state'[m] # None
             PROVE  attempt'[state'[m]].how = m /\ attempt'[state'[m]].pc # "idle"
  BY DEF Owned
<1>1. state'[m] \in Attempts /\ attempt[state'[m]].how = m /\ attempt[state'[m]].pc # "idle"
  BY StateMoves DEF IInv, Typed, Owned
<1> QED BY <1>1, MethodStays

LEMMA NextIInv == IInv /\ [Next]_vars => IInv'
<1> SUFFICES ASSUME IInv, [Next]_vars PROVE IInv'
  OBVIOUS
<1>1. Typed' /\ Counted'
  <2>1. ASSUME NEW u \in Updates, UpdateRead(u) \/ UpdateWrite(u) \/ UpdateDel(u)
        PROVE  Typed' /\ Counted'
    BY <2>1, UpdateTyped DEF IInv, UpdateRead, UpdateWrite, UpdateDel, Counted
  <2>2. CASE UNCHANGED vars
    BY <2>2 DEF IInv, vars, Typed, Counted
  <2> QED BY <2>1, <2>2, AttemptTyped, BetweenTyped, Steps
<1> QED BY <1>1, PlacedStep, OwnedStep DEF IInv

LEMMA SpecIInv == Spec => []IInv
BY InitIInv, NextIInv, PTL DEF Spec

-----------------------------------------------------------------------------
(* One admin *)

LEMMA OneAdminStep ==
    ASSUME IInv, OneAdmin, [Next]_vars
    PROVE  OneAdmin'
<1> USE DEF IInv
<1>0. Len(admins) \in Nat /\ DOMAIN admins = 1..Len(admins)
  BY LenProperties DEF Typed
<1>1. CASE UNCHANGED <<admins, excuse>>
  BY <1>1 DEF OneAdmin
<1>2. ASSUME NEW a \in Attempts, AttemptStep(a)
      PROVE  OneAdmin'
  <2>1. CASE CreateAdmin(a)
    <3>1. a \in early
      BY <2>1 DEF CreateAdmin, Placed, Underway
    <3>2. \/ UNCHANGED <<admins, excuse>>
          \/ /\ admins' = Append(admins, [name |-> attempt[a].name, by |-> a])
             /\ excuse' = excuse \cup {"together" : i \in {j \in DOMAIN admins : a \in early}}
      BY <2>1 DEF CreateAdmin
    <3>3. CASE admins' = Append(admins, [name |-> attempt[a].name, by |-> a])
               /\ excuse' = excuse \cup {"together" : i \in {j \in DOMAIN admins : a \in early}}
      <4>1. [name |-> attempt[a].name, by |-> a] \in Admin
        BY <2>1 DEF CreateAdmin, Placed, Underway, Admin
      <4>2. Len(admins') = Len(admins) + 1
        BY <3>3, <4>1, AppendProperties DEF Typed
      <4>3. CASE Len(admins) = 0
        BY <4>2, <4>3 DEF OneAdmin
      <4>4. CASE Len(admins) # 0
        <5>1. 1 \in DOMAIN admins
          BY <1>0, <4>4
        <5> QED BY <3>1, <3>3, <5>1 DEF OneAdmin
      <4> QED BY <4>3, <4>4
    <3> QED BY <1>1, <3>2, <3>3
  <2> QED BY <1>1, <1>2, <2>1 DEF AttemptStep, Register, Authorize, Login, PasskeyOptions,
             SetVerifier, SetState, Return, Read, Finish
<1>3. ASSUME NEW u \in Updates, UpdateRead(u) \/ UpdateWrite(u) \/ UpdateDel(u)
      PROVE  OneAdmin'
  BY <1>3 DEF UpdateRead, UpdateWrite, UpdateDel, OneAdmin
<1>4. CASE Between
  <2>1. CASE (\E m \in Stateful : Expire(m)) \/ AddPasskey \/ DeletePasskey
    BY <1>1, <2>1 DEF Expire, AddPasskey, DeletePasskey
  <2>2. CASE ResetSuperadmin
    <3>1. PICK i \in DOMAIN admins :
            admins' = SubSeq(admins, 1, i - 1) \o SubSeq(admins, i + 1, Len(admins))
      BY <2>2 DEF ResetSuperadmin
    <3>2. Len(admins') = Len(admins) - 1 /\ excuse' = excuse
      BY <2>2, <3>1, RemoveAdmin DEF ResetSuperadmin, Typed
    <3> QED BY <1>0, <3>2 DEF OneAdmin
  <2>3. ASSUME NEW B, Restart(B) PROVE OneAdmin'
    BY <2>3, KeepOldest DEF Restart, Typed, OneAdmin
  <2> QED BY <1>4, <2>1, <2>2, <2>3 DEF Between
<1> QED BY <1>1, <1>2, <1>3, <1>4, Steps DEF vars

\* Two admins come only of registrations that were both allowed before either was
\* written, however many run and whatever comes between, and a restart ends that.
THEOREM AdminCorrect == Spec => []OneAdmin
<1>1. Init => OneAdmin
  <2>1. ASSUME NEW n \in Names PROVE Len(<<[name |-> n, by |-> None]>>) <= 1
    OBVIOUS
  <2>2. Len(<<>>) <= 1
    OBVIOUS
  <2>3. Init => admins = <<>> \/ \E n \in Names : admins = <<[name |-> n, by |-> None]>>
    BY DEF Init
  <2> QED BY <2>1, <2>2, <2>3 DEF OneAdmin
<1> QED BY <1>1, SpecIInv, OneAdminStep, PTL DEF Spec

-----------------------------------------------------------------------------
(* Some method is enabled *)

LEMMA MergesStep ==
    ASSUME IInv, Merges, SomeLeft, [Next]_vars
    PROVE  Merges' /\ SomeLeft'
<1> USE DEF IInv
<1>1. ASSUME UNCHANGED settings, \A u \in Updates : update'[u] = update[u] \/ update'[u].pc # "write",
             excuse \cap {"raced", "upgrade"} \subseteq excuse'
      PROVE  Merges' /\ SomeLeft'
  BY <1>1 DEF Merges, SomeLeft
<1>2. ASSUME NEW a \in Attempts, AttemptStep(a)
      PROVE  Merges' /\ SomeLeft'
  <2>1. UNCHANGED <<settings, update>> /\ excuse \subseteq excuse'
    BY <1>2 DEF AttemptStep, Register, Authorize, CreateAdmin, Login, PasskeyOptions,
       SetVerifier, SetState, Return, Read, Finish
  <2> QED BY <1>1, <2>1
<1>3. ASSUME NEW u \in Updates, UpdateRead(u)
      PROVE  Merges' /\ SomeLeft'
  <2>1. PICK G \in Bodies, M \in SUBSET Methods :
          /\ Merged(settings, G, M) # {}
          /\ update' = [update EXCEPT ![u] =
                [pc |-> "write", columns |-> G, methods |-> M, seen |-> settings]]
    BY <1>3 DEF UpdateRead
  <2> QED BY <1>3, <2>1 DEF UpdateRead, Merges, SomeLeft, Typed, Update
<1>4. ASSUME NEW u \in Updates, UpdateWrite(u)
      PROVE  Merges' /\ SomeLeft'
  <2>1. \A v \in Updates : update'[v] = update[v] \/ update'[v].pc # "write"
    BY <1>4 DEF UpdateWrite, Typed, Update
  <2>2. CASE update[u].seen = settings
    <3>1. settings' # {}
      BY <1>4, <2>2 DEF UpdateWrite, Merges
    <3> QED BY <2>1, <3>1 DEF Merges, SomeLeft
  <2>3. CASE update[u].seen # settings
    <3>1. "raced" \in excuse'
      BY <1>4, <2>3 DEF UpdateWrite
    <3> QED BY <2>1, <3>1 DEF Merges, SomeLeft
  <2> QED BY <2>2, <2>3
<1>5. ASSUME NEW u \in Updates, UpdateDel(u)
      PROVE  Merges' /\ SomeLeft'
  BY <1>1, <1>5 DEF UpdateDel, Typed, NoUpdate
<1>6. CASE (\E m \in Stateful : Expire(m)) \/ AddPasskey \/ DeletePasskey \/ ResetSuperadmin
  BY <1>1, <1>6 DEF Expire, AddPasskey, DeletePasskey, ResetSuperadmin
<1>7. ASSUME NEW B, Restart(B)
      PROVE  Merges' /\ SomeLeft'
  <2>1. \A v \in Updates : update'[v].pc # "write"
    BY <1>7 DEF Restart, NoUpdate
  <2>2. settings' # {} \/ "upgrade" \in excuse'
    BY <1>7 DEF Restart
  <2> QED BY <2>1, <2>2 DEF Merges, SomeLeft
<1> QED BY <1>1, <1>2, <1>3, <1>4, <1>5, <1>6, <1>7, Steps DEF Between, vars

\* Types, and that the settings never leave the panel without a method to sign in
\* by, but for two updates validated against the same settings and upgrades.
THEOREM MethodCorrect == Spec => []SomeMethod
<1>1. Init => Merges /\ SomeLeft
  BY DEF Init, Merges, SomeLeft, NoUpdate
<1>2. IInv /\ SomeLeft => SomeMethod
  BY TypesFollow DEF SomeLeft, SomeMethod
<1> QED BY <1>1, <1>2, SpecIInv, MergesStep, PTL DEF Spec

-----------------------------------------------------------------------------
(* Nothing but what is named makes a sign-in fail *)

\* An attempt that a step does not touch stays as good as it was.
LEMMA TrackedKept ==
    ASSUME NEW a \in Attempts, Tracked(a), attempt'[a] = attempt[a], disturbed \subseteq disturbed',
           a \in disturbed' \/
             /\ Seen' = Seen
             /\ attempt[a].how = "passkey" => (passkeys > 0 => passkeys' > 0)
             /\ Len(admins') = Len(admins)
             /\ state'[attempt[a].how] = state[attempt[a].how]
             /\ attempt[a].how \in Pkce => verifier'[attempt[a].how] = verifier[attempt[a].how]
    PROVE  Tracked(a)'
BY DEF Tracked, OnTrack, Underway

\* A step of one attempt, seen by another.
LEMMA TrackedOther ==
    ASSUME IInv, NEW b \in Attempts, AttemptStep(b), NEW a \in Attempts \ {b}, Tracked(a)
    PROVE  Tracked(a)'
<1> USE DEF IInv
<1>0. attempt'[a] = attempt[a] /\ disturbed \subseteq disturbed'
  <2>1. disturbed \subseteq disturbed'
    BY DEF AttemptStep, Register, Authorize, CreateAdmin, Login, PasskeyOptions,
       SetVerifier, SetState, Return, Read, Finish
  <2> QED BY <2>1, AttemptMoves
<1>1. CASE a \in disturbed' \/ ~Underway(a)
  BY <1>0, <1>1 DEF Tracked, Underway
<1>2. CASE a \notin disturbed' /\ Underway(a)
  <2>1. ASSUME UNCHANGED <<admins, settings, passkeys, state, verifier>>, Look
        PROVE  Tracked(a)'
    BY <1>0, <2>1, LookKeeps, TrackedKept
  <2>2. CASE (\E n \in Names : Register(b, n)) \/ (\E m \in Methods : Authorize(b, m))
             \/ Login(b) \/ PasskeyOptions(b) \/ Return(b)
    BY <2>1, <2>2 DEF Register, Authorize, Login, PasskeyOptions, Return
  <2>3. CASE CreateAdmin(b)
    <3>1. UNCHANGED <<admins, settings, cached, passkeys, state, verifier>>
      BY <1>2, <2>3 DEF CreateAdmin
    <3> QED BY <1>0, <3>1, TrackedKept DEF Seen
  <2>4. CASE SetVerifier(b)
    <3>1. attempt[b].how # attempt[a].how
      BY <1>2, <2>4 DEF SetVerifier, Others
    <3>2. UNCHANGED <<admins, settings, cached, passkeys, state>>
          /\ verifier' = [verifier EXCEPT ![attempt[b].how] = b]
      BY <2>4 DEF SetVerifier
    <3> QED BY <1>0, <3>1, <3>2, TrackedKept DEF Seen, Typed
  <2>5. CASE SetState(b)
    <3>1. attempt[b].how # attempt[a].how
      BY <1>2, <2>5 DEF SetState, Others
    <3>2. UNCHANGED <<admins, settings, cached, passkeys, verifier>>
          /\ state' = [state EXCEPT ![attempt[b].how] = b]
      BY <2>5 DEF SetState
    <3>3. state'[attempt[a].how] = state[attempt[a].how]
      BY <3>1, <3>2 DEF Typed
    <3> QED BY <1>0, <3>2, <3>3, TrackedKept DEF Seen
  <2>6. CASE Read(b)
    <3>1. UNCHANGED <<admins, settings, cached, passkeys, state, verifier>>
      BY <2>6 DEF Read
    <3> QED BY <1>0, <3>1, TrackedKept DEF Seen
  <2>7. CASE Finish(b)
    <3>1. UNCHANGED <<admins, settings, cached, passkeys>>
      BY <2>7 DEF Finish
    <3>2. state'[attempt[a].how] = state[attempt[a].how]
          /\ (attempt[a].how \in Pkce => verifier'[attempt[a].how] = verifier[attempt[a].how])
      <4>1. CASE attempt[b].how = "passkey" /\ attempt[b].state # b
        BY <2>7, <4>1 DEF Finish, Pkce
      <4>2. CASE ~(attempt[b].how = "passkey" /\ attempt[b].state # b)
        <5>1. attempt[b].how # attempt[a].how
          BY <1>2, <2>7, <4>2 DEF Finish, Others
        <5> QED BY <2>7, <5>1 DEF Finish, Typed
      <4> QED BY <4>1, <4>2
    <3> QED BY <1>0, <3>1, <3>2, TrackedKept DEF Seen
  <2> QED BY <2>2, <2>3, <2>4, <2>5, <2>6, <2>7 DEF AttemptStep
<1> QED BY <1>1, <1>2

\* A step of the attempt itself.
LEMMA TrackedSelf ==
    ASSUME IInv, NEW a \in Attempts, AttemptStep(a), Tracked(a)
    PROVE  Tracked(a)'
<1> USE DEF IInv
<1>0. attempt[a] \in Attempt
  BY DEF Typed
<1>1. ASSUME NEW n \in Names, Register(a, n) PROVE Tracked(a)'
  <2>1. Begin(a, "register", n, "create")
    BY <1>1 DEF Register
  <2>2. attempt'[a].how = "register"
    BY <2>1, BeginType
  <2> QED BY <2>2 DEF Tracked
<1>2. ASSUME NEW m \in Methods, Authorize(a, m) PROVE Tracked(a)'
  <2>1. /\ m \in OAuth /\ Len(admins) = 1 /\ m \in Seen /\ Look
        /\ UNCHANGED <<admins, settings, passkeys, state, verifier, disturbed>>
        /\ Begin(a, m, None, IF m \in Pkce THEN "verifier" ELSE "state")
    BY <1>2 DEF Authorize, LoginAllowed
  <2>2. attempt'[a].how = m /\ attempt'[a].pc = IF m \in Pkce THEN "verifier" ELSE "state"
    BY <2>1, BeginType, StatefulFacts
  <2>3. Seen' = Seen
    BY <2>1, LookKeeps
  <2> QED BY <2>1, <2>2, <2>3, StatefulFacts DEF Tracked, OnTrack
<1>3. CASE Login(a)
  <2>1. Begin(a, "password", None, "in")
    BY <1>3 DEF Login
  <2>2. attempt'[a].pc = "in"
    BY <2>1, BeginType
  <2> QED BY <2>2 DEF Tracked, Underway
<1>4. CASE PasskeyOptions(a)
  <2>1. /\ "passkey" \in Seen /\ Len(admins) > 0 /\ passkeys > 0 /\ Look
        /\ UNCHANGED <<admins, settings, passkeys, state, verifier, disturbed>>
        /\ Begin(a, "passkey", None, "state")
    BY <1>4 DEF PasskeyOptions
  <2>2. attempt'[a].how = "passkey" /\ attempt'[a].pc = "state"
    BY <2>1, BeginType, StatefulFacts
  <2>3. Seen' = Seen
    BY <2>1, LookKeeps
  <2> QED BY <2>1, <2>2, <2>3, StatefulFacts DEF Tracked, OnTrack, Pkce
<1>5. CASE CreateAdmin(a)
  <2>1. (Goto(a, "failed") \/ Goto(a, "in")) /\ attempt[a].how = "register"
    BY <1>5 DEF CreateAdmin, Placed, Underway
  <2>2. attempt'[a].how = "register"
    BY <2>1, GotoType
  <2> QED BY <2>2 DEF Tracked
<1>6. CASE SetVerifier(a)
  <2>1. /\ attempt[a].pc = "verifier" /\ attempt[a].how \in Pkce /\ Goto(a, "state")
        /\ UNCHANGED <<admins, settings, cached, passkeys, state>> /\ disturbed \subseteq disturbed'
        /\ verifier'[attempt[a].how] = a
    BY <1>6 DEF SetVerifier, Placed, Underway, Typed
  <2>2. attempt'[a].pc = "state" /\ attempt'[a].how = attempt[a].how
    BY <2>1, GotoType
  <2> QED BY <2>1, <2>2 DEF Tracked, OnTrack, Underway, Seen
<1>7. CASE SetState(a)
  <2>1. /\ attempt[a].pc = "state" /\ attempt[a].how \in Stateful /\ Goto(a, "away")
        /\ UNCHANGED <<admins, settings, cached, passkeys, verifier>> /\ disturbed \subseteq disturbed'
        /\ state'[attempt[a].how] = a
    BY <1>7 DEF SetState, Placed, Underway, Typed
  <2>2. attempt'[a].pc = "away" /\ attempt'[a].how = attempt[a].how
    BY <2>1, GotoType
  <2> QED BY <2>1, <2>2 DEF Tracked, OnTrack, Underway, Seen
<1>8. CASE Return(a)
  <2> DEFINE m == attempt[a].how
             allowed == IF m = "passkey" THEN m \in Seen /\ Len(admins) > 0 ELSE LoginAllowed(m)
  <2>1. /\ attempt[a].pc = "away" /\ Goto(a, IF allowed THEN "read" ELSE "failed") /\ Look
        /\ UNCHANGED <<admins, settings, passkeys, state, verifier, disturbed>>
    BY <1>8 DEF Return
  <2>2. attempt'[a].pc = (IF allowed THEN "read" ELSE "failed") /\ attempt'[a].how = m
    BY <2>1, GotoType
  <2>3. m # "register" /\ a \notin disturbed => OnTrack(a)
    BY <2>1 DEF Tracked, Underway
  <2>4. m # "register" /\ a \notin disturbed => allowed
    BY <2>3 DEF OnTrack, LoginAllowed
  <2>5. Seen' = Seen
    BY <2>1, LookKeeps
  <2> HIDE DEF allowed
  <2> QED BY <2>1, <2>2, <2>3, <2>4, <2>5 DEF Tracked, OnTrack
<1>9. CASE Read(a)
  <2> DEFINE m == attempt[a].how
             v == IF m \in Pkce THEN verifier[m] ELSE None
  <2>1. /\ attempt[a].pc = "read"
        /\ attempt' = [attempt EXCEPT ![a] = [attempt[a] EXCEPT !.pc = "compare",
                             !.state = state[m], !.verifier = v]]
        /\ UNCHANGED <<admins, settings, cached, passkeys, state, verifier, disturbed>>
    BY <1>9 DEF Read
  <2> HIDE DEF v
  <2>2. /\ attempt'[a].pc = "compare" /\ attempt'[a].how = m /\ attempt'[a].state = state[m]
        /\ attempt'[a].verifier = v
    BY <1>0, <2>1 DEF Typed, Attempt
  <2>3. m # "register" /\ a \notin disturbed => OnTrack(a)
    BY <2>1 DEF Tracked, Underway
  <2> QED BY <2>1, <2>2, <2>3 DEF Tracked, OnTrack, Seen, v
<1>10. CASE Finish(a)
  <2> DEFINE m == attempt[a].how
             good == /\ attempt[a].state = a
                     /\ m \in Pkce => attempt[a].verifier = a
                     /\ m = "passkey" => passkeys > 0
  <2>1. /\ attempt[a].pc = "compare" /\ disturbed \subseteq disturbed'
        /\ attempt'[a].pc = IF good THEN "in" ELSE "failed"
        /\ attempt'[a].how = m
    BY <1>10 DEF Finish, Typed, NoAttempt
  <2>2. m # "register" /\ a \notin disturbed => OnTrack(a)
    BY <2>1 DEF Tracked, Underway
  <2>3. m # "register" /\ a \notin disturbed => good
    BY <2>1, <2>2 DEF OnTrack
  <2> HIDE DEF good
  <2> QED BY <2>1, <2>3 DEF Tracked, Underway
<1> QED BY <1>1, <1>2, <1>3, <1>4, <1>5, <1>6, <1>7, <1>8, <1>9, <1>10 DEF AttemptStep

\* The settings, passkeys, admins and the panel change.
LEMMA TrackedBetween ==
    ASSUME IInv, [Next]_vars, ~\E b \in Attempts : AttemptStep(b),
           NEW a \in Attempts, Tracked(a)
    PROVE  Tracked(a)'
<1> USE DEF IInv
<1>0. ASSUME attempt'[a] # attempt[a] PROVE Tracked(a)'
  <2>1. a \in disturbed'
    BY <1>0, OthersEnd
  <2> QED BY <2>1 DEF Tracked
<1>1. ASSUME attempt'[a] = attempt[a], disturbed \subseteq disturbed', a \in disturbed' \/ ~Underway(a)
      PROVE  Tracked(a)'
  BY <1>1 DEF Tracked, Underway
<1>2. CASE UNCHANGED vars
  BY <1>2, TrackedKept DEF vars, Seen
<1>3. ASSUME NEW u \in Updates, UpdateRead(u) \/ UpdateWrite(u) \/ UpdateDel(u)
      PROVE  Tracked(a)'
  <2>0. attempt' = attempt /\ disturbed \subseteq disturbed'
        /\ UNCHANGED <<admins, passkeys, state, verifier>>
    BY <1>3 DEF UpdateRead, UpdateWrite, UpdateDel
  <2>1. CASE UpdateRead(u)
    BY <2>0, <2>1, TrackedKept DEF UpdateRead, Seen
  <2>2. CASE UpdateWrite(u) \/ UpdateDel(u)
    <3>1. CASE a \in disturbed' \/ ~Underway(a) \/ attempt[a].how = "register"
      BY <1>1, <2>0, <3>1 DEF Tracked
    <3>2. CASE a \notin disturbed' /\ Underway(a) /\ attempt[a].how # "register"
      <4>1. attempt[a].how \in settings'
        BY <2>2, <3>2 DEF UpdateWrite, UpdateDel, Disabled
      <4>2. OnTrack(a)
        BY <2>0, <3>2 DEF Tracked
      <4>3. attempt[a].how \in Seen'
        BY <2>2, <4>1, <4>2 DEF UpdateWrite, UpdateDel, Seen, OnTrack
      <4> QED BY <2>0, <3>2, <4>2, <4>3 DEF Tracked, OnTrack, Underway
    <3> QED BY <3>1, <3>2
  <2> QED BY <1>3, <2>1, <2>2
<1>4. ASSUME NEW m \in Stateful, Expire(m)
      PROVE  Tracked(a)'
  <2>1. UNCHANGED <<admins, settings, cached, passkeys, attempt>> /\ disturbed \subseteq disturbed'
    BY <1>4 DEF Expire
  <2>2. CASE a \in disturbed' \/ ~Underway(a) \/ attempt[a].how = "register"
    BY <1>1, <2>1, <2>2 DEF Tracked
  <2>3. CASE a \notin disturbed' /\ Underway(a) /\ attempt[a].how # "register"
    <3>1. OnTrack(a)
      BY <2>1, <2>3 DEF Tracked
    <3>2. state[attempt[a].how] = a => state'[attempt[a].how] = a
      <4>1. attempt[a].how \in Stateful
        BY <2>3, StatefulFacts DEF Placed
      <4>2. CASE /\ state[m] # None /\ state' = [state EXCEPT ![m] = None]
                 /\ disturbed' = disturbed \cup {state[m]}
        BY <2>3, <4>1, <4>2 DEF Typed
      <4>3. CASE UNCHANGED state
        BY <4>3
      <4> QED BY <1>4, <4>2, <4>3 DEF Expire
    <3>3. attempt[a].how \in Pkce /\ verifier[attempt[a].how] = a => verifier'[attempt[a].how] = a
      BY <1>4, <2>3 DEF Expire, Typed
    <3> QED BY <2>1, <2>3, <3>1, <3>2, <3>3 DEF Tracked, OnTrack, Underway, Seen
  <2> QED BY <2>2, <2>3
<1>5. CASE AddPasskey
  <2>1. Seen' = Seen
    BY <1>5, LookKeeps DEF AddPasskey
  <2>2. passkeys > 0 => passkeys' > 0
    BY <1>5 DEF AddPasskey, Counted
  <2>3. UNCHANGED <<admins, state, verifier, attempt, disturbed>>
    BY <1>5 DEF AddPasskey
  <2> QED BY <2>1, <2>2, <2>3, TrackedKept
<1>6. CASE DeletePasskey
  <2>1. UNCHANGED <<admins, settings, cached, state, verifier, attempt>>
        /\ disturbed \subseteq disturbed'
    BY <1>6 DEF DeletePasskey
  <2>2. CASE attempt[a].how = "passkey"
    BY <1>1, <1>6, <2>1, <2>2 DEF DeletePasskey
  <2>3. CASE attempt[a].how # "passkey"
    BY <2>1, <2>3, TrackedKept DEF Seen
  <2> QED BY <2>2, <2>3
<1>7. CASE ResetSuperadmin
  BY <1>1, <1>7 DEF ResetSuperadmin
<1>8. ASSUME NEW B, Restart(B) PROVE Tracked(a)'
  <2>1. disturbed' = disturbed \cup {b \in Attempts : Underway(b)}
    BY <1>8 DEF Restart
  <2> QED BY <1>0, <1>1, <2>1
<1> QED BY <1>2, <1>3, <1>4, <1>5, <1>6, <1>7, <1>8, Steps DEF Between

LEMMA TrackedStep ==
    ASSUME IInv, AllTracked, [Next]_vars
    PROVE  AllTracked'
<1> SUFFICES ASSUME NEW a \in Attempts PROVE Tracked(a)'
  BY DEF AllTracked
<1>1. Tracked(a)
  BY DEF AllTracked
<1>2. CASE AttemptStep(a)
  BY <1>1, <1>2, TrackedSelf
<1>3. ASSUME NEW b \in Attempts \ {a}, AttemptStep(b) PROVE Tracked(a)'
  BY <1>1, <1>3, TrackedOther
<1>4. CASE ~\E b \in Attempts : AttemptStep(b)
  BY <1>1, <1>4, TrackedBetween
<1> QED BY <1>2, <1>3, <1>4

\* A sign-in that left the panel fails only if something came between: another by the
\* same method, a key that expired, a change of the settings, passkeys or admins, or
\* a restart.
THEOREM SignInCorrect == Spec => []Undisturbed
<1>1. Init => AllTracked
  BY DEF Init, AllTracked, Tracked, NoAttempt
<1>2. AllTracked => Undisturbed
  BY DEF AllTracked, Tracked, Undisturbed
<1> QED BY <1>1, <1>2, SpecIInv, TrackedStep, PTL DEF Spec
=============================================================================
