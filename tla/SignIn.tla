------------------------------- MODULE SignIn -------------------------------
(***************************************************************************)
(* Signing in to the panel (auth.service.ts, remnawave-settings.service.ts,*)
(* passkey.service.ts, 12_verify-admin.ts, 3_seed-remnawave-settings.ts).  *)
(*                                                                         *)
(* There is one admin: the first visitor registers, and nobody after.  The *)
(* admin signs in by the methods the settings enable.  A sign-in through   *)
(* an OAuth2 provider or a passkey leaves the panel and comes back; what   *)
(* the panel remembers of it meanwhile, in Redis, is one state (or         *)
(* challenge) and one code verifier for each method, whoever signs in.     *)
(***************************************************************************)
EXTENDS Naturals, Sequences, FiniteSets

CONSTANTS
    Names,         \* usernames
    Attempts,      \* registrations and sign-ins
    Updates,       \* updates of the settings
    Methods,       \* the methods that are looked at
    None,
    MaxEdits,      \* bound: how often a passkey is added or deleted, the admin is
                   \* reset, a key expires or the panel restarts
    MaxColumns,    \* bound: how many columns one update writes
    Faults         \* bound: "upgrade": stored settings do not fit a new version

OAuth    == {"github", "keycloak"}
Pkce     == {"keycloak"}                       \* with a code verifier
Stateful == OAuth \cup {"passkey"}
Groups   == {{"password"}, {"passkey"}, OAuth} \* a column of the settings each

ASSUME MethodsAssumption == Methods \subseteq Stateful \cup {"password"} /\ "password" \in Methods
ASSUME NoneAssumption    == None \notin Attempts \cup Names \cup Methods
ASSUME BoundsAssumption  == MaxEdits \in Nat /\ MaxColumns \in Nat
ASSUME FaultsAssumption  == Faults \subseteq {"upgrade"}

VARIABLES
    admins,        \* the admins, the oldest first: [name, by]
    settings,      \* the methods that are enabled
    cached,        \* the copy of the settings in Redis
    passkeys,      \* how many passkeys are registered
    state,         \* [Stateful -> the sign-in whose state or challenge is in Redis]
    verifier,      \* [Pkce -> the sign-in whose code verifier is in Redis]
    attempt,       \* [Attempts -> a registration or sign-in]
    update,        \* [Updates -> an update of the settings]
    edits,
    disturbed,     \* attempts that something from outside came between
    early,         \* registrations that began while there was no admin
    excuse         \* why no method may be enabled, or there may be two admins

vars == <<admins, settings, cached, passkeys, state, verifier, attempt, update,
          edits, disturbed, early, excuse>>

NotCached == {None}

Attempt ==
    [pc: {"idle", "create", "verifier", "state", "away", "read", "compare", "in", "failed"},
     how: Stateful \cup {"register", "password"}, name: Names \cup {None},
     state: Attempts \cup {None}, verifier: Attempts \cup {None}]
NoAttempt == [pc |-> "idle", how |-> "register", name |-> None, state |-> None, verifier |-> None]

Update   == [pc: {"idle", "write", "del", "done"}, columns: SUBSET Groups,
             methods: SUBSET Methods, seen: SUBSET Methods]
NoUpdate == [pc |-> "idle", columns |-> {}, methods |-> {}, seen |-> {}]

TypeOK ==
    /\ admins \in Seq([name: Names, by: Attempts \cup {None}])
    /\ settings \subseteq Methods
    /\ cached \in (SUBSET Methods) \cup {NotCached}
    /\ passkeys \in 0..MaxEdits + 1
    /\ state \in [Stateful -> Attempts \cup {None}]
    /\ \A m \in Stateful : state[m] # None => attempt[state[m]].how = m
    /\ verifier \in [Pkce -> Attempts \cup {None}]
    /\ attempt \in [Attempts -> Attempt]
    /\ update \in [Updates -> Update]
    /\ edits \in 0..MaxEdits
    /\ disturbed \subseteq Attempts
    /\ early \subseteq Attempts
    /\ excuse \subseteq {"raced", "upgrade", "together"}

\* A new panel, with the password as the only method, or one that has been used
\* for a while.
Init ==
    /\ \/ admins = <<>> /\ settings = {"password"} /\ passkeys = 0
       \/ /\ admins \in {<<[name |-> n, by |-> None]>> : n \in Names}
          /\ settings \in (SUBSET Methods) \ {{}}
          /\ passkeys \in 0..1
    /\ cached = NotCached
    /\ state = [m \in Stateful |-> None] /\ verifier = [m \in Pkce |-> None]
    /\ attempt = [a \in Attempts |-> NoAttempt]
    /\ update = [u \in Updates |-> NoUpdate]
    /\ edits = 0
    /\ disturbed = {} /\ early = {} /\ excuse = {}

-----------------------------------------------------------------------------
(* Registration and passwords.                                               *)

\* The settings as the panel sees them; reading them fills the cache.
Seen == IF cached = NotCached THEN settings ELSE cached
Look == cached' = Seen

\* getStatus.  With several admins nobody may sign in or register.
RegisterAllowed == Len(admins) = 0
LoginAllowed(m) == Len(admins) = 1 /\ m \in Seen

Underway(a) == attempt[a].pc \notin {"idle", "in", "failed"}

Goto(a, pc) == attempt' = [attempt EXCEPT ![a].pc = pc]
Begin(a, how, n, pc) ==
    /\ attempt[a].pc = "idle"
    /\ attempt' = [attempt EXCEPT ![a].pc = pc, ![a].how = how, ![a].name = n]

\* Mutant of Register: whoever asks may register.
RegisterAnytime(a, n) ==
    /\ Begin(a, "register", n, "create")
    /\ Look
    /\ early' = early \cup {b \in {a} : Len(admins) = 0}
    /\ UNCHANGED <<admins, settings, passkeys, state, verifier, update, edits, disturbed, excuse>>

\* The first visitor registers.
Register(a, n) ==
    /\ RegisterAllowed
    /\ Begin(a, "register", n, "create")
    /\ Look
    /\ early' = early \cup {b \in {a} : Len(admins) = 0}
    /\ UNCHANGED <<admins, settings, passkeys, state, verifier, update, edits, disturbed, excuse>>

\* The password has been hashed; usernames are unique.
CreateAdmin(a) ==
    /\ attempt[a].pc = "create"
    /\ IF \E i \in DOMAIN admins : admins[i].name = attempt[a].name
       THEN Goto(a, "failed") /\ UNCHANGED <<admins, disturbed, excuse>>
       ELSE /\ Goto(a, "in")
            /\ admins' = Append(admins, [name |-> attempt[a].name, by |-> a])
            /\ disturbed' = disturbed \cup {b \in Attempts : Underway(b)}
            /\ excuse' = excuse \cup {"together" : i \in {j \in DOMAIN admins : a \in early}}
    /\ UNCHANGED <<settings, cached, passkeys, state, verifier, update, edits, early>>

Login(a) ==
    /\ LoginAllowed("password")
    /\ Begin(a, "password", None, "in")
    /\ Look
    /\ UNCHANGED <<admins, settings, passkeys, state, verifier, update, edits, disturbed,
                   excuse, early>>

-----------------------------------------------------------------------------
(* OAuth2 (oauth2Authorize, oauth2Callback) and passkeys                      *)
(* (generatePasskeyAuthenticationOptions, verifyPasskeyAuthentication).      *)

Authorize(a, m) ==
    /\ m \in OAuth /\ LoginAllowed(m)
    /\ Begin(a, m, None, IF m \in Pkce THEN "verifier" ELSE "state")
    /\ Look
    /\ UNCHANGED <<admins, settings, passkeys, state, verifier, update, edits, disturbed,
                   excuse, early>>

\* A passkey does not ask how many admins there are.
PasskeyOptions(a) ==
    /\ "passkey" \in Seen /\ Len(admins) > 0 /\ passkeys > 0
    /\ Begin(a, "passkey", None, "state")
    /\ Look
    /\ UNCHANGED <<admins, settings, passkeys, state, verifier, update, edits, disturbed,
                   excuse, early>>

\* Other sign-ins by the same method, in whose way a gets.
Others(a) == {b \in Attempts \ {a} : Underway(b) /\ attempt[b].how = attempt[a].how}

SetVerifier(a) ==
    /\ attempt[a].pc = "verifier"
    /\ verifier' = [verifier EXCEPT ![attempt[a].how] = a]
    /\ Goto(a, "state")
    /\ disturbed' = disturbed \cup Others(a)
    /\ UNCHANGED <<admins, settings, cached, passkeys, state, update, edits, excuse, early>>

\* Mutant of SetState: one state for all methods.
SetAnyState(a) ==
    /\ attempt[a].pc = "state"
    /\ state' = [m \in Stateful |-> a]
    /\ Goto(a, "away")
    /\ disturbed' = disturbed \cup Others(a)
    /\ UNCHANGED <<admins, settings, cached, passkeys, verifier, update, edits, excuse, early>>

\* The state is kept, and the browser sent to the provider (or the authenticator).
SetState(a) ==
    /\ attempt[a].pc = "state"
    /\ state' = [state EXCEPT ![attempt[a].how] = a]
    /\ Goto(a, "away")
    /\ disturbed' = disturbed \cup Others(a)
    /\ UNCHANGED <<admins, settings, cached, passkeys, verifier, update, edits, excuse, early>>

\* The browser is back, with a code the provider will answer for.
Return(a) ==
    LET m == attempt[a].how
        allowed == IF m = "passkey" THEN m \in Seen /\ Len(admins) > 0 ELSE LoginAllowed(m)
    IN
    /\ attempt[a].pc = "away"
    /\ Goto(a, IF allowed THEN "read" ELSE "failed")
    /\ Look
    /\ UNCHANGED <<admins, settings, passkeys, state, verifier, update, edits, disturbed,
                   excuse, early>>

Read(a) ==
    LET m == attempt[a].how IN
    /\ attempt[a].pc = "read"
    /\ attempt' = [attempt EXCEPT ![a] = [@ EXCEPT
          !.pc = "compare", !.state = state[m],
          !.verifier = IF m \in Pkce THEN verifier[m] ELSE None]]
    /\ UNCHANGED <<admins, settings, cached, passkeys, state, verifier, update, edits,
                   disturbed, excuse, early>>

\* What was kept is deleted, whatever it is; a challenge only if it is answered.
\* Then the state is compared and the code exchanged.
Finish(a) ==
    LET m == attempt[a].how
        own == attempt[a].state = a
    IN
    /\ attempt[a].pc = "compare"
    /\ state' = IF m = "passkey" /\ ~(own /\ passkeys > 0) THEN state
                ELSE [state EXCEPT ![m] = None]
    /\ verifier' = [n \in Pkce |-> IF n = m THEN None ELSE verifier[n]]
    /\ attempt' = [attempt EXCEPT ![a] = [NoAttempt EXCEPT !.how = m,
          !.pc = IF /\ own
                    /\ m \in Pkce => attempt[a].verifier = a
                    /\ m = "passkey" => passkeys > 0
                 THEN "in" ELSE "failed"]]
    /\ disturbed' = IF m = "passkey" /\ ~own THEN disturbed ELSE disturbed \cup Others(a)
    /\ UNCHANGED <<admins, settings, cached, passkeys, update, edits, excuse, early>>

-----------------------------------------------------------------------------
(* The settings (updateSettingsFromController).                              *)

\* The columns a request may write.
Bodies == {C \in SUBSET Groups : Cardinality(C) \in 1..MaxColumns}

Merged(old, columns, methods) == (old \ UNION columns) \cup methods

\* Attempts whose method is no longer enabled.
Disabled(S) == {a \in Attempts : Underway(a) /\ attempt[a].how \notin S}

\* Mutant of UpdateRead: the settings are validated before they are merged.
UpdateReadUnmerged(u) ==
    /\ update[u].pc = "idle" /\ Len(admins) > 0
    /\ \E G \in Bodies : \E M \in SUBSET (Methods \cap UNION G) :
          /\ settings # {}
          /\ update' = [update EXCEPT ![u] =
                [pc |-> "write", columns |-> G, methods |-> M, seen |-> settings]]
    /\ UNCHANGED <<admins, settings, cached, passkeys, state, verifier, attempt, edits,
                   disturbed, excuse, early>>

\* The settings are read and merged with the body, and at least one method must
\* be enabled.
UpdateRead(u) ==
    /\ update[u].pc = "idle" /\ Len(admins) > 0
    /\ \E G \in Bodies : \E M \in SUBSET (Methods \cap UNION G) :
          /\ Merged(settings, G, M) # {}
          /\ update' = [update EXCEPT ![u] =
                [pc |-> "write", columns |-> G, methods |-> M, seen |-> settings]]
    /\ UNCHANGED <<admins, settings, cached, passkeys, state, verifier, attempt, edits,
                   disturbed, excuse, early>>

\* The columns of the body are written,
UpdateWrite(u) ==
    /\ update[u].pc = "write"
    /\ settings' = Merged(settings, update[u].columns, update[u].methods)
    /\ update' = [update EXCEPT ![u].pc = "del"]
    /\ disturbed' = disturbed \cup Disabled(settings')
    /\ excuse' = excuse \cup {"raced" : s \in {update[u].seen} \ {settings}}
    /\ UNCHANGED <<admins, cached, passkeys, state, verifier, attempt, edits, early>>

\* and the copy in Redis is deleted.
UpdateDel(u) ==
    /\ update[u].pc = "del"
    /\ cached' = NotCached
    /\ update' = [update EXCEPT ![u] = [NoUpdate EXCEPT !.pc = "done"]]
    /\ disturbed' = disturbed \cup Disabled(settings)
    /\ UNCHANGED <<admins, settings, passkeys, state, verifier, attempt, edits, excuse, early>>

-----------------------------------------------------------------------------
(* What comes between.                                                       *)

Edit == edits < MaxEdits /\ edits' = edits + 1

\* A state, a challenge or a code verifier expires.
Expire(m) ==
    /\ Edit
    /\ \/ /\ state[m] # None
          /\ state' = [state EXCEPT ![m] = None]
          /\ disturbed' = disturbed \cup {state[m]}
          /\ UNCHANGED verifier
       \/ /\ m \in Pkce /\ verifier[m] # None
          /\ verifier' = [verifier EXCEPT ![m] = None]
          /\ disturbed' = disturbed \cup {verifier[m]}
          /\ UNCHANGED state
    /\ UNCHANGED <<admins, settings, cached, passkeys, attempt, update, excuse, early>>

\* verifyPasskeyRegistration
AddPasskey ==
    /\ Edit
    /\ Len(admins) > 0 /\ "passkey" \in Seen
    /\ passkeys' = passkeys + 1
    /\ Look
    /\ UNCHANGED <<admins, settings, state, verifier, attempt, update, disturbed, excuse, early>>

DeletePasskey ==
    /\ Edit
    /\ passkeys > 0
    /\ passkeys' = passkeys - 1
    /\ disturbed' = disturbed \cup {a \in Attempts : Underway(a) /\ attempt[a].how = "passkey"}
    /\ UNCHANGED <<admins, settings, cached, state, verifier, attempt, update, excuse, early>>

\* The CLI deletes an admin, and the passkeys of the admin with it.
ResetSuperadmin ==
    /\ Edit
    /\ \E i \in DOMAIN admins :
          /\ admins' = SubSeq(admins, 1, i - 1) \o SubSeq(admins, i + 1, Len(admins))
          /\ passkeys' = IF i = 1 THEN 0 ELSE passkeys
    /\ disturbed' = disturbed \cup {a \in Attempts : Underway(a)}
    /\ UNCHANGED <<settings, cached, state, verifier, attempt, update, excuse, early>>

\* The panel restarts: requests end, Redis is flushed, methods whose stored
\* settings (B) do not fit the new version are disabled, passkeys in favour of the
\* password, and only the oldest admin is kept.
Restart(B) ==
    /\ Edit
    /\ admins' = SubSeq(admins, 1, IF Len(admins) > 1 THEN 1 ELSE Len(admins))
    /\ settings' = (settings \ B) \cup {"password" : x \in {"passkey"} \cap B}
    /\ cached' = NotCached
    /\ state' = [m \in Stateful |-> None] /\ verifier' = [m \in Pkce |-> None]
    /\ attempt' = [a \in Attempts |-> IF Underway(a) /\ attempt[a].pc # "away"
          THEN [NoAttempt EXCEPT !.pc = "failed", !.how = attempt[a].how] ELSE attempt[a]]
    /\ update' = [u \in Updates |-> IF update[u].pc = "idle" THEN NoUpdate
          ELSE [NoUpdate EXCEPT !.pc = "done"]]
    /\ disturbed' = disturbed \cup {a \in Attempts : Underway(a)}
    /\ excuse' = (excuse \ {"together"}) \cup {"upgrade" : x \in {{}} \cap {settings'}}
    /\ UNCHANGED <<passkeys, early>>

-----------------------------------------------------------------------------
AttemptStep(a) ==
    \/ \E n \in Names : Register(a, n)
    \/ \E m \in Methods : Authorize(a, m)
    \/ CreateAdmin(a) \/ Login(a) \/ PasskeyOptions(a)
    \/ SetVerifier(a) \/ SetState(a) \/ Return(a) \/ Read(a) \/ Finish(a)

Next ==
    \/ \E a \in Attempts : AttemptStep(a)
    \/ \E u \in Updates : UpdateRead(u) \/ UpdateWrite(u) \/ UpdateDel(u)
    \/ \E m \in Stateful : Expire(m)
    \/ AddPasskey \/ DeletePasskey \/ ResetSuperadmin
    \/ Restart({})
    \/ \E B \in SUBSET (settings \ {"password"}) : "upgrade" \in Faults /\ Restart(B)

Spec == Init /\ [][Next]_vars

-----------------------------------------------------------------------------
(* Properties.                                                               *)

\* Some method stays enabled, unless two updates were validated against the same
\* settings, or an upgrade disabled the last one.
SomeMethod == TypeOK /\ (settings # {} \/ excuse \cap {"raced", "upgrade"} # {})

\* A sign-in that left the panel and fails was disturbed: someone else signed in
\* by the same method, a key expired, the settings, passkeys or admins changed, or
\* the panel restarted.
Undisturbed == \A a \in Attempts : attempt[a].pc = "failed" /\ attempt[a].how # "register"
                  => a \in disturbed

\* Two admins come only of registrations that were both allowed before either was
\* written, and they do not outlive a restart.  "Multiple admins found. This should
\* not be possible." (auth.service.ts)
OneAdmin == Len(admins) <= 1 \/ "together" \in excuse
=============================================================================
