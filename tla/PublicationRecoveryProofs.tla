---------------------- MODULE PublicationRecoveryProofs ----------------------
(***************************************************************************)
(* However publish, its retries and its crashes interleave in a checkout:    *)
(* whatever a run renames into place is its own, no capability that may have *)
(* a room is silently replaced, and saved credentials stay those of the room. *)
(* For any number of terminals, capabilities, payloads and rooms.            *)
(***************************************************************************)
EXTENDS PublicationRecovery, RoomServiceProofs

-----------------------------------------------------------------------------
(* The inductive invariant.                                                  *)

Saving     == {"save", "create", "compare", "rename"}
Posting    == {"ready", "send", "wait"}
Confirming == {"acknowledged", "credentials", "config"}

RunState ==
    [pc : {"idle"}]
    \cup [pc : {"read"}, mode : Modes, body : Payloads]
    \cup [pc : Saving \cup Posting, mode : Modes, raw : Record \cup {NoFile}, state : Record]
    \cup [pc : Confirming, creds : Creds]

\* Types, with the fields that a run has at each of its steps.
Typed ==
    /\ record \in Record \cup {NoFile} /\ recordTmp \in Record \cup {NoFile}
    /\ config \in Creds \cup {NoFile} /\ configTmp \in Creds \cup {NoFile}
    /\ net \subseteq [from : Terminals \cup {Nowhere}, cap : Caps, payload : Payloads]
    /\ abandoned \subseteq Caps
    /\ cli \in [Terminals -> RunState]

\* A request whose sender is known is the one its sender waits for.
Awaited ==
    \A m \in net : m.from # Nowhere =>
        At(m.from, "wait") /\ cli[m.from].state = [cap |-> m.cap, payload |-> m.payload]

HoldsRecord(p) == cli[p].pc \in {"compare", "rename"}

\* A temporary belongs to one run: the only one between its creation and its
\* renaming.
TemporariesOwned ==
    /\ \A p \in Terminals : HoldsRecord(p) => recordTmp = cli[p].state
    /\ \A p \in Terminals : At(p, "config") => configTmp = cli[p].creds
    /\ \A p, q \in Terminals : HoldsRecord(p) /\ HoldsRecord(q) => p = q
    /\ \A p, q \in Terminals : At(p, "config") /\ At(q, "config") => p = q

\* The record names the capability, or the host has explicitly left it behind.
OnRecord(h) == (record # NoFile /\ record.cap = h) \/ h \in abandoned

\* Until its rename the record is the one a run decided on, and it replaces one
\* only when it was asked to; what it then sends is on record.
Decided(p) ==
    /\ cli[p].pc \in Saving /\ cli[p].raw # NoFile => cli[p].mode = "new"
    /\ At(p, "rename") => record = cli[p].raw
    /\ cli[p].pc \in Posting => OnRecord(cli[p].state.cap)

\* Credentials, wherever they are, are an answer that the service gave.
Given(creds) == \E h \in Caps : creds \in answered[h]

CredentialsGiven ==
    /\ config # NoFile => Given(config)
    /\ configTmp # NoFile => Given(configTmp)
    /\ \A p \in Terminals : cli[p].pc \in Confirming => Given(cli[p].creds)

RecoveryInv ==
    /\ IInv
    /\ Typed
    /\ Awaited
    /\ TemporariesOwned
    /\ NoSilentReplacement
    /\ \A p \in Terminals : Decided(p)
    /\ CredentialsGiven

-----------------------------------------------------------------------------
(* What a run has at each of its steps, and what no step takes away.         *)

\* The fields of a run.
LEMMA RunFields ==
    ASSUME Typed, NEW p \in Terminals
    PROVE  /\ cli[p] \in RunState
           /\ cli[p].pc \in {"idle", "read"} \cup Saving \cup Posting \cup Confirming
           /\ At(p, "read") => cli[p].mode \in Modes /\ cli[p].body \in Payloads
           /\ cli[p].pc \in Saving \cup Posting =>
                 /\ cli[p].mode \in Modes /\ cli[p].state \in Record /\ cli[p].raw \in Record \cup {NoFile}
                 /\ cli[p] = [pc |-> cli[p].pc, mode |-> cli[p].mode, raw |-> cli[p].raw, state |-> cli[p].state]
           /\ cli[p].pc \in Confirming =>
                 cli[p].creds \in Creds /\ cli[p] = [pc |-> cli[p].pc, creds |-> cli[p].creds]
<1>1. cli[p] \in RunState
  BY DEF Typed
<1>2. CASE cli[p] \in [pc : {"idle"}]
  BY <1>1, <1>2 DEF At, Saving, Posting, Confirming
<1>3. CASE cli[p] \in [pc : {"read"}, mode : Modes, body : Payloads]
  BY <1>1, <1>3 DEF At, Saving, Posting, Confirming
<1>4. CASE cli[p] \in [pc : Saving \cup Posting, mode : Modes, raw : Record \cup {NoFile}, state : Record]
  BY <1>1, <1>4 DEF At, Saving, Posting, Confirming
<1>5. CASE cli[p] \in [pc : Confirming, creds : Creds]
  BY <1>1, <1>5 DEF At, Saving, Posting, Confirming
<1> QED
  BY <1>1, <1>2, <1>3, <1>4, <1>5 DEF RunState

\* A run moves; the others do not.
LEMMA RunMoves ==
    ASSUME Typed, NEW p \in Terminals, NEW r \in RunState, cli' = [cli EXCEPT ![p] = r]
    PROVE  /\ cli' \in [Terminals -> RunState]
           /\ cli'[p] = r
           /\ \A q \in Terminals : q # p => cli'[q] = cli[q]
BY DEF Typed

\* A run at its next step, its fields as they are.
Onward(p, pc) == [cli[p] EXCEPT !.pc = pc]

\* A run that proceeds keeps its fields.
LEMMA RunProceeds ==
    ASSUME Typed, NEW p \in Terminals, NEW pc,
           \/ cli[p].pc \in Saving \cup Posting /\ pc \in Saving \cup Posting
           \/ cli[p].pc \in Confirming /\ pc \in Confirming
    PROVE  /\ Onward(p, pc) \in RunState
           /\ Onward(p, pc).pc = pc
           /\ cli[p].pc \in Saving \cup Posting =>
                 /\ Onward(p, pc).mode = cli[p].mode /\ Onward(p, pc).raw = cli[p].raw
                 /\ Onward(p, pc).state = cli[p].state
           /\ cli[p].pc \in Confirming => Onward(p, pc).creds = cli[p].creds
<1> DEFINE r == Onward(p, pc)
<1>2. CASE cli[p].pc \in Saving \cup Posting /\ pc \in Saving \cup Posting
  <2>1. r = [pc |-> pc, mode |-> cli[p].mode, raw |-> cli[p].raw, state |-> cli[p].state]
    <3> DEFINE mode == cli[p].mode
               raw == cli[p].raw
               state == cli[p].state
    <3>1. cli[p] = [pc |-> cli[p].pc, mode |-> mode, raw |-> raw, state |-> state]
      BY <1>2, RunFields
    <3> HIDE DEF mode, raw, state
    <3>2. r = [pc |-> pc, mode |-> mode, raw |-> raw, state |-> state]
      BY <3>1 DEF Onward
    <3> QED
      BY <3>2 DEF mode, raw, state
  <2>2. cli[p].mode \in Modes /\ cli[p].state \in Record /\ cli[p].raw \in Record \cup {NoFile}
    BY <1>2, RunFields
  <2> HIDE DEF r
  <2>3. r \in RunState
    BY <1>2, <2>1, <2>2 DEF RunState
  <2>4. cli[p].pc \notin Confirming
    BY <1>2 DEF Saving, Posting, Confirming
  <2> QED
    BY <2>1, <2>3, <2>4 DEF r
<1>3. CASE cli[p].pc \in Confirming /\ pc \in Confirming
  <2>1. r = [pc |-> pc, creds |-> cli[p].creds]
    <3> DEFINE creds == cli[p].creds
    <3>1. cli[p] = [pc |-> cli[p].pc, creds |-> creds]
      BY <1>3, RunFields
    <3> HIDE DEF creds
    <3>2. r = [pc |-> pc, creds |-> creds]
      BY <3>1 DEF Onward
    <3> QED
      BY <3>2 DEF creds
  <2>2. cli[p].creds \in Creds
    BY <1>3, RunFields
  <2> HIDE DEF r
  <2>3. r \in RunState
    BY <1>3, <2>1, <2>2 DEF RunState
  <2>4. cli[p].pc \notin Saving \cup Posting
    BY <1>3 DEF Saving, Posting, Confirming
  <2> QED
    BY <2>1, <2>3, <2>4 DEF r
<1> QED
  BY <1>2, <1>3

\* Whatever a terminal does, for the service it is one of its operations or none.
LEMMA ServiceOperation == IInv /\ Typed /\ RecoveryNext => [Next]_vars
<1> SUFFICES ASSUME IInv, Typed, RecoveryNext PROVE [Next]_vars
  OBVIOUS
<1>1. now \in 0..now /\ DOMAIN rooms \subseteq Ids
  BY DataAssumption DEF IInv, TypeOK
<1>2. CASE UNCHANGED service
  BY <1>2 DEF service, vars
<1>3. CASE \E m \in net : Serve(m)
  <2> SUFFICES ASSUME NEW m \in net, Serve(m) PROVE Next
    BY <1>3
  <2>1. m.cap \in Caps /\ m.payload \in Payloads
    BY DEF Typed
  <2>2. CASE \E i \in Ids, k \in Keys : Publish(m.cap, i, k, m.payload, now)
    BY <1>1, <2>1, <2>2 DEF Next
  <2>3. CASE Replay(m.cap, m.payload)
    BY <1>1, <2>1, <2>3 DEF Next
  <2> QED
    BY <2>2, <2>3 DEF Serve
<1>4. CASE ServiceStep
  <2>1. CASE Tick
    BY <2>1 DEF Next
  <2>2. CASE HostRepublish
    BY <1>1, <2>2 DEF HostRepublish, Next
  <2>3. CASE HostDelete
    <3>1. PICK i \in DOMAIN rooms : Remove({i})
      BY <2>3 DEF HostDelete
    <3>2. {i} \in SUBSET Ids
      BY <1>1
    <3> QED
      BY <3>1, <3>2 DEF Next
  <2>4. CASE \E S \in SUBSET Ids : Remove({i \in S : i \in DOMAIN rooms /\ rooms[i].expires <= now})
    <3>1. PICK S \in SUBSET Ids : Remove({i \in S : i \in DOMAIN rooms /\ rooms[i].expires <= now})
      BY <2>4
    <3>2. {i \in S : i \in DOMAIN rooms /\ rooms[i].expires <= now} \in SUBSET Ids
      OBVIOUS
    <3> QED
      BY <3>1, <3>2 DEF Next
  <2> QED
    BY <1>4, <2>1, <2>2, <2>3, <2>4 DEF ServiceStep
<1>5. CASE \E p \in Terminals : (\E mode \in Modes : Start(p, mode)) \/ Run(p) \/ GiveUp(p) \/ Crash(p)
  BY <1>2, <1>5 DEF Run, Start, Prepare, CheckStorage, CreateTemporary, Compare, RenameRecord, Send,
                    CreateConfig, RenameConfig, GiveUp, Crash, service
<1>6. CASE RemoveLeftovers \/ \E m \in net : Drop(m)
  BY <1>2, <1>6 DEF RemoveLeftovers, Drop
<1> QED
  BY <1>3, <1>4, <1>5, <1>6 DEF RecoveryNext

\* The service takes back no answer, and a capability that has one has a room.
LEMMA AnswersStay ==
    ASSUME IInv, [Next]_vars
    PROVE  /\ \A h \in Caps : answered[h] \subseteq answered'[h]
           /\ \A creds : Given(creds) => Given(creds)'
<1>1. \A h \in Caps : answered[h] \subseteq answered'[h]
  <2>1. CASE UNCHANGED answered
    BY <2>1
  <2>2. ASSUME NEW h \in Caps, NEW a, answered' = [answered EXCEPT ![h] = answered[h] \cup {a}]
        PROVE  \A g \in Caps : answered[g] \subseteq answered'[g]
    BY <2>2 DEF IInv, TypeOK
  <2>3. CASE \E h \in Caps, i \in Ids, k \in Keys, p \in Payloads, t \in 0..now : Publish(h, i, k, p, t)
    BY <2>2, <2>3 DEF Publish
  <2>4. CASE \E h \in Caps, p \in Payloads : Replay(h, p)
    BY <2>2, <2>4 DEF Replay
  <2> QED
    BY <2>1, <2>3, <2>4 DEF Next, vars, Tick, Create, Claim, Republish, Change, Remove, Hold, Admit, Locate, Withdraw
<1>2. \A creds : Given(creds) => Given(creds)'
  BY <1>1 DEF Given
<1> QED
  BY <1>1, <1>2

-----------------------------------------------------------------------------
(* Each step keeps the invariant; what it says of the service, NextInv does. *)

\* The part of it that is about the checkout.
CheckoutInv ==
    /\ Typed /\ Awaited /\ TemporariesOwned /\ NoSilentReplacement
    /\ (\A p \in Terminals : Decided(p)) /\ CredentialsGiven

LEMMA RecoveryInitInv == RecoveryInit => RecoveryInv
<1> SUFFICES ASSUME RecoveryInit PROVE RecoveryInv
  OBVIOUS
<1>1. IInv
  BY InitInv DEF RecoveryInit
<1>2. cli = [p \in Terminals |-> [pc |-> "idle"]]
  BY DEF RecoveryInit, Idle
<1>3. Typed
  BY <1>2 DEF RecoveryInit, Typed, RunState
<1>4. Awaited /\ TemporariesOwned /\ (\A p \in Terminals : Decided(p)) /\ CredentialsGiven
  BY <1>2 DEF RecoveryInit, Awaited, TemporariesOwned, HoldsRecord, At, Decided, Saving, Posting,
              Confirming, CredentialsGiven
<1>5. NoSilentReplacement
  BY DEF RecoveryInit, Init, NoSilentReplacement
<1> QED
  BY <1>1, <1>3, <1>4, <1>5 DEF RecoveryInv

\* A run moves on its own and holds no temporary then: no file changes, no
\* request is added, and what was asked by this run nobody waits for.
LEMMA QuietRun ==
    ASSUME CheckoutInv, NEW p \in Terminals, NEW r \in RunState, cli' = [cli EXCEPT ![p] = r],
           UNCHANGED <<service, files, abandoned>>,
           r.pc \notin {"compare", "rename", "config"},
           r.pc \in Saving /\ r.raw # NoFile => r.mode = "new",
           r.pc \in Posting => OnRecord(r.state.cap),
           r.pc \in Confirming => Given(r.creds),
           net' \subseteq [from : Terminals \cup {Nowhere}, cap : Caps, payload : Payloads],
           \A m \in net' : /\ m.from # Nowhere => m.from # p /\ m \in net
                           /\ \E n \in net : n.cap = m.cap
    PROVE  CheckoutInv'
<1>1. /\ cli' \in [Terminals -> RunState] /\ cli'[p] = r
      /\ \A q \in Terminals : q # p => cli'[q] = cli[q]
  BY RunMoves DEF CheckoutInv
<1>2. UNCHANGED <<record, recordTmp, config, configTmp, publication, answered, abandoned>>
  BY DEF service, files
<1>3. Typed'
  BY <1>1, <1>2 DEF CheckoutInv, Typed
<1>4. Awaited'
  BY <1>1 DEF CheckoutInv, Awaited, At, Typed
<1>5. TemporariesOwned'
  BY <1>1, <1>2 DEF CheckoutInv, TemporariesOwned, HoldsRecord, At
<1>6. NoSilentReplacement'
  BY <1>2 DEF CheckoutInv, NoSilentReplacement
<1>7. (\A q \in Terminals : Decided(q))'
  BY <1>1, <1>2 DEF CheckoutInv, Decided, OnRecord, At
<1>8. CredentialsGiven'
  BY <1>1, <1>2 DEF CheckoutInv, CredentialsGiven, Given
<1> QED
  BY <1>3, <1>4, <1>5, <1>6, <1>7, <1>8 DEF CheckoutInv

\* A run that is not waiting has no request of its own under way.
LEMMA NoneAwaited ==
    ASSUME CheckoutInv, NEW p \in Terminals, ~At(p, "wait"), net' = net
    PROVE  /\ net' \subseteq [from : Terminals \cup {Nowhere}, cap : Caps, payload : Payloads]
           /\ \A m \in net' : /\ m.from # Nowhere => m.from # p /\ m \in net
                              /\ \E n \in net : n.cap = m.cap
BY DEF CheckoutInv, Awaited, Typed

\* Once a run has ended, what it asked for is nobody's.
LEMMA NoneOrphaned ==
    ASSUME CheckoutInv, NEW p \in Terminals, net' = Orphaned(p)
    PROVE  /\ net' \subseteq [from : Terminals \cup {Nowhere}, cap : Caps, payload : Payloads]
           /\ \A m \in net' : /\ m.from # Nowhere => m.from # p /\ m \in net
                              /\ \E n \in net : n.cap = m.cap
<1>1. \A n \in net : n \in [from : Terminals \cup {Nowhere}, cap : Caps, payload : Payloads]
  BY DEF CheckoutInv, Typed
<1>2. \A n \in net :
         /\ [n EXCEPT !.from = Nowhere] \in [from : Terminals \cup {Nowhere}, cap : Caps, payload : Payloads]
         /\ [n EXCEPT !.from = Nowhere].from = Nowhere
         /\ [n EXCEPT !.from = Nowhere].cap = n.cap
  BY <1>1
<1>3. \A m \in net' : \E n \in net :
         \/ n.from = p /\ m = [n EXCEPT !.from = Nowhere]
         \/ n.from # p /\ m = n
  BY DEF Orphaned
<1> QED
  BY <1>1, <1>2, <1>3

LEMMA StartInv ==
    ASSUME CheckoutInv, NEW p \in Terminals, NEW mode \in Modes, Start(p, mode) PROVE CheckoutInv'
<1>1. PICK body \in Payloads : cli' = [cli EXCEPT ![p] = [pc |-> "read", mode |-> mode, body |-> body]]
  BY DEF Start
<1> DEFINE r == [pc |-> "read", mode |-> mode, body |-> body]
<1>2. r \in RunState /\ r.pc = "read"
  BY DEF RunState
<1> HIDE DEF r
<1>3. cli' = [cli EXCEPT ![p] = r]
  BY <1>1 DEF r
<1>4. ~At(p, "wait") /\ net' = net /\ UNCHANGED <<service, files, abandoned>>
  BY DEF Start, At
<1> QED
  BY <1>2, <1>3, <1>4, NoneAwaited, QuietRun DEF Saving, Posting, Confirming

\* A run that stops, with or without its request.
LEMMA StopInv ==
    ASSUME CheckoutInv, NEW p \in Terminals, Stop(p), UNCHANGED <<service, files, abandoned>>,
           \/ ~At(p, "wait") /\ net' = net
           \/ net' = Orphaned(p)
    PROVE  CheckoutInv'
<1>1. Idle \in RunState /\ Idle.pc = "idle"
  BY DEF Idle, RunState
<1>2. cli' = [cli EXCEPT ![p] = Idle]
  BY DEF Stop
<1> QED
  BY <1>1, <1>2, NoneAwaited, NoneOrphaned, QuietRun DEF Saving, Posting, Confirming

LEMMA PrepareInv ==
    ASSUME CheckoutInv, NEW p \in Terminals, Prepare(p) PROVE CheckoutInv'
<1>1. ~At(p, "wait") /\ At(p, "read") /\ net' = net /\ UNCHANGED <<service, files, abandoned>>
  BY DEF Prepare, At
<1>2. cli[p].mode \in Modes /\ cli[p].body \in Payloads /\ record \in Record \cup {NoFile}
  BY <1>1, RunFields DEF CheckoutInv, Typed
<1>3. CASE Stop(p)
  BY <1>1, <1>3, StopInv
<1> DEFINE run(pc, state) == [pc |-> pc, mode |-> cli[p].mode, raw |-> record, state |-> state]
<1>4. CASE record # NoFile /\ cli' = [cli EXCEPT ![p] = run("ready", record)]
  <2> DEFINE r == run("ready", record)
  <2>1. r \in RunState /\ r.pc = "ready" /\ r.state = record
    BY <1>2, <1>4 DEF RunState, Posting
  <2> HIDE DEF r
  <2>2. cli' = [cli EXCEPT ![p] = r]
    BY <1>4 DEF r
  <2>3. OnRecord(r.state.cap)
    BY <2>1, <1>4 DEF OnRecord
  <2> QED
    BY <1>1, <2>1, <2>2, <2>3, NoneAwaited, QuietRun DEF Saving, Confirming
<1>5. CASE /\ record # NoFile => cli[p].mode = "new"
           /\ \E h \in Caps : cli' = [cli EXCEPT ![p] = run("save", [cap |-> h, payload |-> cli[p].body])]
  <2>1. PICK h \in Caps : cli' = [cli EXCEPT ![p] = run("save", [cap |-> h, payload |-> cli[p].body])]
    BY <1>5
  <2> DEFINE r == run("save", [cap |-> h, payload |-> cli[p].body])
  <2>2. [cap |-> h, payload |-> cli[p].body] \in Record
    BY <1>2 DEF Record
  <2>3. r \in RunState /\ r.pc = "save" /\ r.raw = record /\ r.mode = cli[p].mode
    BY <1>2, <2>2 DEF RunState, Saving
  <2> HIDE DEF r
  <2>4. cli' = [cli EXCEPT ![p] = r]
    BY <2>1 DEF r
  <2> QED
    BY <1>1, <1>5, <2>3, <2>4, NoneAwaited, QuietRun DEF Posting, Confirming
<1> HIDE DEF run
<1>6. \/ Stop(p)
      \/ record # NoFile /\ cli' = [cli EXCEPT ![p] = run("ready", record)]
      \/ /\ record # NoFile => cli[p].mode = "new"
         /\ \E h \in Caps : cli' = [cli EXCEPT ![p] = run("save", [cap |-> h, payload |-> cli[p].body])]
  BY DEF Prepare, run
<1> QED
  BY <1>3, <1>4, <1>5, <1>6

LEMMA CheckStorageInv ==
    ASSUME CheckoutInv, NEW p \in Terminals, CheckStorage(p) PROVE CheckoutInv'
<1>1. /\ cli[p].pc \in {"save", "ready", "acknowledged"} /\ ~At(p, "wait")
      /\ net' = net /\ UNCHANGED <<service, files, abandoned>>
  BY DEF CheckStorage, Prepared, At
<1>2. CASE Stop(p)
  BY <1>1, <1>2, StopInv
<1>3. ASSUME NEW pc, cli' = [cli EXCEPT ![p] = Onward(p, pc)],
             \/ At(p, "save") /\ pc = "create"
             \/ At(p, "ready") /\ pc = "send"
             \/ At(p, "acknowledged") /\ pc = "credentials"
      PROVE  CheckoutInv'
  <2> DEFINE r == Onward(p, pc)
  <2>1. /\ r \in RunState /\ r.pc = pc
        /\ cli[p].pc \in Saving \cup Posting => r.mode = cli[p].mode /\ r.raw = cli[p].raw /\ r.state = cli[p].state
        /\ cli[p].pc \in Confirming => r.creds = cli[p].creds
    BY <1>3, RunProceeds DEF CheckoutInv, At, Saving, Posting, Confirming
  <2> HIDE DEF r
  <2>2. /\ r.pc \in Saving /\ r.raw # NoFile => r.mode = "new"
        /\ r.pc \in Posting => OnRecord(r.state.cap)
        /\ r.pc \in Confirming => Given(r.creds)
        /\ r.pc \notin {"compare", "rename", "config"}
    BY <1>3, <2>1 DEF CheckoutInv, Decided, CredentialsGiven, At, Saving, Posting, Confirming
  <2>3. cli' = [cli EXCEPT ![p] = r]
    BY <1>3 DEF r
  <2> QED
    BY <1>1, <2>1, <2>2, <2>3, NoneAwaited, QuietRun
<1>4. CASE cli' = [cli EXCEPT ![p].pc = Prepared[cli[p].pc]]
  <2>1. CASE At(p, "save")
    <3>1. cli' = [cli EXCEPT ![p] = Onward(p, "create")]
      BY <1>4, <2>1 DEF At, Prepared, Onward
    <3> QED
      BY <1>3, <2>1, <3>1
  <2>2. CASE At(p, "ready")
    <3>1. cli' = [cli EXCEPT ![p] = Onward(p, "send")]
      BY <1>4, <2>2 DEF At, Prepared, Onward
    <3> QED
      BY <1>3, <2>2, <3>1
  <2>3. CASE At(p, "acknowledged")
    <3>1. cli' = [cli EXCEPT ![p] = Onward(p, "credentials")]
      BY <1>4, <2>3 DEF At, Prepared, Onward
    <3> QED
      BY <1>3, <2>3, <3>1
  <2> QED
    BY <1>1, <2>1, <2>2, <2>3 DEF At
<1> QED
  BY <1>2, <1>4 DEF CheckStorage

LEMMA GiveUpInv == ASSUME CheckoutInv, NEW p \in Terminals, GiveUp(p) PROVE CheckoutInv'
BY StopInv DEF GiveUp

LEMMA CrashInv == ASSUME CheckoutInv, NEW p \in Terminals, Crash(p) PROVE CheckoutInv'
BY StopInv DEF Crash

-----------------------------------------------------------------------------
(* The steps that create, compare, rename and remove files.                  *)

\* A run moves and a temporary changes: what is neither about temporaries nor
\* about the record itself stays.
LEMMA WriterMoves ==
    ASSUME CheckoutInv, NEW p \in Terminals, NEW r \in RunState, cli' = [cli EXCEPT ![p] = r],
           ~At(p, "wait"), UNCHANGED <<service, net, abandoned, record>>,
           recordTmp' \in Record \cup {NoFile}, config' \in Creds \cup {NoFile}, configTmp' \in Creds \cup {NoFile},
           r.pc \in Saving /\ r.raw # NoFile => r.mode = "new",
           r.pc = "rename" => record = r.raw,
           r.pc \notin Posting,
           r.pc \in Confirming => Given(r.creds),
           config' # NoFile => Given(config'),
           configTmp' # NoFile => Given(configTmp'),
           TemporariesOwned'
    PROVE  CheckoutInv'
<1>1. /\ cli' \in [Terminals -> RunState] /\ cli'[p] = r
      /\ \A q \in Terminals : q # p => cli'[q] = cli[q]
  BY RunMoves DEF CheckoutInv
<1>2. UNCHANGED <<record, net, publication, answered, abandoned>>
  BY DEF service
<1>3. Typed'
  BY <1>1, <1>2 DEF CheckoutInv, Typed
<1>4. Awaited'
  BY <1>1, <1>2 DEF CheckoutInv, Awaited, At, Typed
<1>6. NoSilentReplacement'
  BY <1>2 DEF CheckoutInv, NoSilentReplacement
<1>7. (\A q \in Terminals : Decided(q))'
  BY <1>1, <1>2 DEF CheckoutInv, Decided, OnRecord, At
<1>8. CredentialsGiven'
  BY <1>1, <1>2 DEF CheckoutInv, CredentialsGiven, Given
<1> QED
  BY <1>3, <1>4, <1>6, <1>7, <1>8 DEF CheckoutInv

\* The next step of a run that is saving.
LEMMA SavesOnward ==
    ASSUME CheckoutInv, NEW p \in Terminals, cli[p].pc \in Saving, NEW pc \in Saving
    PROVE  /\ Onward(p, pc) \in RunState /\ Onward(p, pc).pc = pc
           /\ Onward(p, pc).raw = cli[p].raw /\ Onward(p, pc).state = cli[p].state
           /\ Onward(p, pc).state \in Record
           /\ Onward(p, pc).raw # NoFile => Onward(p, pc).mode = "new"
<1>1. Typed /\ (cli[p].raw # NoFile => cli[p].mode = "new")
  BY DEF CheckoutInv, Decided
<1>2. cli[p].state \in Record
  BY <1>1, RunFields
<1>3. /\ Onward(p, pc) \in RunState /\ Onward(p, pc).pc = pc
      /\ Onward(p, pc).raw = cli[p].raw /\ Onward(p, pc).state = cli[p].state
      /\ Onward(p, pc).mode = cli[p].mode
  BY <1>1, RunProceeds
<1> QED
  BY <1>1, <1>2, <1>3

LEMMA CreateTemporaryInv == ASSUME CheckoutInv, NEW p \in Terminals, CreateTemporary(p) PROVE CheckoutInv'
<1>1. /\ At(p, "create") /\ ~At(p, "wait") /\ cli[p].pc \in Saving
      /\ UNCHANGED <<service, record, config, configTmp, net, abandoned>>
  BY DEF CreateTemporary, At, Saving
<1>2. CASE Stop(p) /\ UNCHANGED recordTmp
  BY <1>1, <1>2, StopInv DEF files
<1>3. CASE /\ recordTmp = NoFile /\ recordTmp' = cli[p].state
           /\ cli' = [cli EXCEPT ![p] = Onward(p, "compare")]
  <2> DEFINE r == Onward(p, "compare")
  <2>1. /\ r \in RunState /\ r.pc = "compare" /\ r.state = cli[p].state /\ r.state \in Record
        /\ r.raw # NoFile => r.mode = "new"
    BY <1>1, SavesOnward DEF Saving
  <2> HIDE DEF r
  <2>2. cli' = [cli EXCEPT ![p] = r]
    BY <1>3 DEF r
  <2>3. cli'[p] = r /\ \A q \in Terminals : q # p => cli'[q] = cli[q]
    BY <2>1, <2>2, RunMoves DEF CheckoutInv
  <2>4. \A q \in Terminals : ~HoldsRecord(q)
    <3>1. \A q \in Terminals : HoldsRecord(q) => cli[q].state \in Record
      BY RunFields DEF CheckoutInv, HoldsRecord, Saving
    <3> QED
      BY <1>3, <3>1, RecoveryAssumption DEF CheckoutInv, TemporariesOwned
  <2>5. TemporariesOwned'
    BY <1>1, <1>3, <2>1, <2>3, <2>4 DEF CheckoutInv, TemporariesOwned, HoldsRecord, At
  <2>6. /\ recordTmp' \in Record \cup {NoFile} /\ config' \in Creds \cup {NoFile}
        /\ configTmp' \in Creds \cup {NoFile}
    BY <1>1, <1>3, <2>1 DEF CheckoutInv, Typed
  <2>7. (config' # NoFile => Given(config')) /\ (configTmp' # NoFile => Given(configTmp'))
    BY <1>1 DEF CheckoutInv, CredentialsGiven
  <2> QED
    BY <1>1, <2>1, <2>2, <2>5, <2>6, <2>7, WriterMoves DEF Posting, Confirming
<1>4. \/ Stop(p) /\ UNCHANGED recordTmp
      \/ /\ recordTmp = NoFile /\ recordTmp' = cli[p].state
         /\ cli' = [cli EXCEPT ![p] = Onward(p, "compare")]
  BY DEF CreateTemporary, Onward
<1> QED
  BY <1>2, <1>3, <1>4

LEMMA CompareInv == ASSUME CheckoutInv, NEW p \in Terminals, Compare(p) PROVE CheckoutInv'
<1>1. /\ At(p, "compare") /\ ~At(p, "wait") /\ cli[p].pc \in Saving /\ HoldsRecord(p)
      /\ UNCHANGED <<service, record, config, configTmp, net, abandoned>>
  BY DEF Compare, At, Saving, HoldsRecord
<1>2. /\ config' \in Creds \cup {NoFile} /\ configTmp' \in Creds \cup {NoFile}
      /\ recordTmp \in Record \cup {NoFile}
      /\ config' # NoFile => Given(config')
      /\ configTmp' # NoFile => Given(configTmp')
  BY <1>1 DEF CheckoutInv, Typed, CredentialsGiven
<1>3. CASE recordTmp' = NoFile /\ Stop(p)
  <2>1. Idle \in RunState /\ Idle.pc = "idle" /\ cli' = [cli EXCEPT ![p] = Idle]
    BY <1>3 DEF Stop, Idle, RunState
  <2>2. cli'[p] = Idle /\ \A q \in Terminals : q # p => cli'[q] = cli[q]
    BY <2>1, RunMoves DEF CheckoutInv
  <2>3. TemporariesOwned'
    BY <1>1, <2>1, <2>2 DEF CheckoutInv, TemporariesOwned, HoldsRecord, At
  <2> QED
    BY <1>1, <1>2, <1>3, <2>1, <2>3, WriterMoves DEF Saving, Posting, Confirming
<1>4. CASE record = cli[p].raw /\ cli' = [cli EXCEPT ![p] = Onward(p, "rename")] /\ UNCHANGED recordTmp
  <2> DEFINE r == Onward(p, "rename")
  <2>1. /\ r \in RunState /\ r.pc = "rename" /\ r.state = cli[p].state /\ r.raw = cli[p].raw
        /\ r.raw # NoFile => r.mode = "new"
    BY <1>1, SavesOnward DEF Saving
  <2> HIDE DEF r
  <2>2. cli' = [cli EXCEPT ![p] = r]
    BY <1>4 DEF r
  <2>3. cli'[p] = r /\ \A q \in Terminals : q # p => cli'[q] = cli[q]
    BY <2>1, <2>2, RunMoves DEF CheckoutInv
  <2>4. TemporariesOwned'
    BY <1>1, <1>4, <2>1, <2>3 DEF CheckoutInv, TemporariesOwned, HoldsRecord, At
  <2> QED
    BY <1>1, <1>2, <1>4, <2>1, <2>2, <2>4, WriterMoves DEF Posting, Confirming
<1>5. \/ recordTmp' = NoFile /\ Stop(p)
      \/ record = cli[p].raw /\ cli' = [cli EXCEPT ![p] = Onward(p, "rename")] /\ UNCHANGED recordTmp
  BY DEF Compare, Onward
<1> QED
  BY <1>3, <1>4, <1>5

\* What is on record stays so when a record replaces the one a run decided on.
LEMMA RenameRecordInv == ASSUME CheckoutInv, NEW p \in Terminals, RenameRecord(p) PROVE CheckoutInv'
<1>1. /\ At(p, "rename") /\ ~At(p, "wait") /\ cli[p].pc \in Saving /\ HoldsRecord(p)
      /\ record' = recordTmp /\ recordTmp' = NoFile
      /\ abandoned' = IF cli[p].mode = "new" /\ cli[p].raw # NoFile
                      THEN abandoned \cup {cli[p].raw.cap} ELSE abandoned
      /\ cli' = [cli EXCEPT ![p] = Onward(p, "ready")]
      /\ UNCHANGED <<service, config, configTmp, net>>
  BY DEF RenameRecord, At, Saving, HoldsRecord, Onward
<1>2. /\ cli[p].state \in Record /\ cli[p].raw \in Record \cup {NoFile}
      /\ record = cli[p].raw /\ recordTmp = cli[p].state
      /\ cli[p].raw # NoFile => cli[p].mode = "new"
  BY <1>1, RunFields DEF CheckoutInv, TemporariesOwned, Decided
<1> DEFINE r == Onward(p, "ready")
<1>3. r \in RunState /\ r.pc = "ready" /\ r.state = cli[p].state
  BY <1>1, RunProceeds DEF CheckoutInv, Saving, Posting
<1> HIDE DEF r
<1>4. /\ cli' \in [Terminals -> RunState] /\ cli'[p] = r
      /\ \A q \in Terminals : q # p => cli'[q] = cli[q]
  BY <1>1, <1>3, RunMoves DEF CheckoutInv, r
<1>5. record' = cli[p].state /\ record' # NoFile
  BY <1>1, <1>2, RecoveryAssumption
<1>6. \A h \in Caps : OnRecord(h) => OnRecord(h)'
  BY <1>1, <1>2 DEF OnRecord
<1>7. Typed'
  <2>1. abandoned' \subseteq Caps
    BY <1>1, <1>2 DEF CheckoutInv, Typed, Record
  <2> QED
    BY <1>1, <1>2, <1>4, <2>1 DEF CheckoutInv, Typed
<1>8. Awaited'
  BY <1>1, <1>4 DEF CheckoutInv, Awaited, At, Typed
<1>9. TemporariesOwned'
  BY <1>1, <1>3, <1>4 DEF CheckoutInv, TemporariesOwned, HoldsRecord, At
<1>10. NoSilentReplacement'
  <2>1. UNCHANGED <<publication, net>>
    BY <1>1 DEF service
  <2>2. \A h \in Caps : publication[h] # NoRoom \/ (\E m \in net : m.cap = h) => OnRecord(h)
    BY DEF CheckoutInv, NoSilentReplacement, OnRecord
  <2>3. \A h \in Caps : publication'[h] # NoRoom \/ (\E m \in net' : m.cap = h) => OnRecord(h)'
    BY <1>6, <2>1, <2>2
  <2> QED
    BY <2>3 DEF NoSilentReplacement, OnRecord
<1>11. (\A q \in Terminals : Decided(q))'
  <2>1. Decided(p)'
    BY <1>3, <1>4, <1>5 DEF Decided, OnRecord, At, Saving
  <2>2. ASSUME NEW q \in Terminals, q # p PROVE Decided(q)'
    <3>1. cli'[q] = cli[q] /\ Decided(q) /\ ~At(q, "rename")
      BY <1>1, <1>4, <2>2 DEF CheckoutInv, TemporariesOwned, HoldsRecord, At
    <3>2. cli[q].pc \in Posting => cli[q].state.cap \in Caps
      BY RunFields DEF CheckoutInv, Record
    <3>3. cli[q].pc \in Posting => OnRecord(cli[q].state.cap)
      BY <3>1 DEF Decided
    <3>4. cli[q].pc \in Posting => OnRecord(cli[q].state.cap)'
      <4>1. SUFFICES ASSUME cli[q].pc \in Posting, NEW h \in Caps, h = cli[q].state.cap
                     PROVE  OnRecord(cli[q].state.cap)'
        BY <3>2
      <4>2. OnRecord(h)'
        BY <1>6, <3>3, <4>1
      <4>3. cli'[q].state.cap = h
        BY <3>1, <4>1
      <4> QED
        BY <4>2, <4>3 DEF OnRecord
    <3> QED
      BY <3>1, <3>4 DEF Decided, At
  <2> QED
    BY <2>1, <2>2
<1>12. CredentialsGiven'
  BY <1>1, <1>3, <1>4 DEF CheckoutInv, CredentialsGiven, Given, service, Confirming
<1> QED
  BY <1>7, <1>8, <1>9, <1>10, <1>11, <1>12 DEF CheckoutInv

LEMMA CreateConfigInv == ASSUME CheckoutInv, NEW p \in Terminals, CreateConfig(p) PROVE CheckoutInv'
<1>1. /\ At(p, "credentials") /\ ~At(p, "wait") /\ cli[p].pc \in Confirming
      /\ UNCHANGED <<service, record, recordTmp, config, net, abandoned>>
  BY DEF CreateConfig, At, Confirming
<1>2. CASE Stop(p) /\ UNCHANGED configTmp
  BY <1>1, <1>2, StopInv DEF files
<1>3. CASE /\ configTmp = NoFile /\ configTmp' = cli[p].creds
           /\ cli' = [cli EXCEPT ![p] = Onward(p, "config")]
  <2> DEFINE r == Onward(p, "config")
  <2>1. r \in RunState /\ r.pc = "config" /\ r.creds = cli[p].creds
    BY <1>1, RunProceeds DEF CheckoutInv, Confirming
  <2>2. cli[p].creds \in Creds /\ Given(cli[p].creds)
    BY <1>1, RunFields DEF CheckoutInv, CredentialsGiven
  <2> HIDE DEF r
  <2>3. cli' = [cli EXCEPT ![p] = r]
    BY <1>3 DEF r
  <2>4. cli'[p] = r /\ \A q \in Terminals : q # p => cli'[q] = cli[q]
    BY <2>1, <2>3, RunMoves DEF CheckoutInv
  <2>5. \A q \in Terminals : ~At(q, "config")
    <3>1. \A q \in Terminals : At(q, "config") => cli[q].creds \in Creds
      BY RunFields DEF CheckoutInv, At, Confirming
    <3> QED
      BY <1>3, <3>1, RecoveryAssumption DEF CheckoutInv, TemporariesOwned
  <2>6. TemporariesOwned'
    BY <1>1, <1>3, <2>1, <2>4, <2>5 DEF CheckoutInv, TemporariesOwned, HoldsRecord, At
  <2>7. /\ recordTmp' \in Record \cup {NoFile} /\ config' \in Creds \cup {NoFile}
        /\ configTmp' \in Creds \cup {NoFile}
    BY <1>1, <1>3, <2>2 DEF CheckoutInv, Typed
  <2>8. (config' # NoFile => Given(config')) /\ (configTmp' # NoFile => Given(configTmp'))
    BY <1>1, <1>3, <2>2 DEF CheckoutInv, CredentialsGiven
  <2> QED
    BY <1>1, <2>1, <2>2, <2>3, <2>6, <2>7, <2>8, WriterMoves DEF Posting, Saving
<1>4. \/ Stop(p) /\ UNCHANGED configTmp
      \/ /\ configTmp = NoFile /\ configTmp' = cli[p].creds
         /\ cli' = [cli EXCEPT ![p] = Onward(p, "config")]
  BY DEF CreateConfig, Onward
<1> QED
  BY <1>2, <1>3, <1>4

LEMMA RenameConfigInv == ASSUME CheckoutInv, NEW p \in Terminals, RenameConfig(p) PROVE CheckoutInv'
<1>1. /\ At(p, "config") /\ ~At(p, "wait") /\ cli[p].pc \in Confirming
      /\ config' = configTmp /\ configTmp' = NoFile /\ Stop(p)
      /\ UNCHANGED <<service, record, recordTmp, net, abandoned>>
  BY DEF RenameConfig, At, Confirming
<1>2. Idle \in RunState /\ Idle.pc = "idle" /\ cli' = [cli EXCEPT ![p] = Idle]
  BY <1>1 DEF Stop, Idle, RunState
<1>3. cli'[p] = Idle /\ \A q \in Terminals : q # p => cli'[q] = cli[q]
  BY <1>2, RunMoves DEF CheckoutInv
<1>4. TemporariesOwned'
  BY <1>1, <1>2, <1>3 DEF CheckoutInv, TemporariesOwned, HoldsRecord, At
<1>5. /\ recordTmp' \in Record \cup {NoFile} /\ config' \in Creds \cup {NoFile}
      /\ configTmp' \in Creds \cup {NoFile}
  BY <1>1 DEF CheckoutInv, Typed
<1>6. (config' # NoFile => Given(config')) /\ (configTmp' # NoFile => Given(configTmp'))
  BY <1>1 DEF CheckoutInv, CredentialsGiven
<1> QED
  BY <1>1, <1>2, <1>4, <1>5, <1>6, WriterMoves DEF Saving, Posting, Confirming

LEMMA RemoveLeftoversInv == ASSUME CheckoutInv, RemoveLeftovers PROVE CheckoutInv'
<1>1. /\ \A p \in Terminals : cli[p].pc = "idle"
      /\ recordTmp' = NoFile /\ configTmp' = NoFile
      /\ UNCHANGED <<record, config, cli, net, abandoned, publication, answered>>
  BY DEF RemoveLeftovers, At, service
<1>2. Typed' /\ Awaited' /\ NoSilentReplacement' /\ CredentialsGiven'
  BY <1>1 DEF CheckoutInv, Typed, Awaited, NoSilentReplacement, CredentialsGiven, Given, At
<1>3. TemporariesOwned' /\ (\A p \in Terminals : Decided(p))'
  BY <1>1 DEF TemporariesOwned, HoldsRecord, At, Decided, Saving, Posting
<1> QED
  BY <1>2, <1>3 DEF CheckoutInv

-----------------------------------------------------------------------------
(* The steps of the network and of the service.                              *)

LEMMA SendInv == ASSUME CheckoutInv, NEW p \in Terminals, Send(p) PROVE CheckoutInv'
<1> DEFINE m == [from |-> p, cap |-> cli[p].state.cap, payload |-> cli[p].state.payload]
           r == Onward(p, "wait")
<1>1. /\ At(p, "send") /\ ~At(p, "wait") /\ cli[p].pc \in Posting
      /\ net' = net \cup {m} /\ cli' = [cli EXCEPT ![p] = r]
      /\ UNCHANGED <<record, recordTmp, config, configTmp, publication, answered, abandoned>>
  BY DEF Send, At, Posting, Onward, service, files
<1>2. r \in RunState /\ r.pc = "wait" /\ r.state = cli[p].state /\ r.state \in Record
  BY <1>1, RunProceeds, RunFields DEF CheckoutInv, Posting
<1>3. /\ m \in [from : Terminals \cup {Nowhere}, cap : Caps, payload : Payloads]
      /\ m.from = p /\ m.cap = r.state.cap /\ r.state = [cap |-> m.cap, payload |-> m.payload]
  BY <1>2 DEF Record
<1>4. OnRecord(m.cap)
  BY <1>1, <1>2, <1>3 DEF CheckoutInv, Decided
<1> HIDE DEF m, r
<1>5. /\ cli' \in [Terminals -> RunState] /\ cli'[p] = r
      /\ \A q \in Terminals : q # p => cli'[q] = cli[q]
  BY <1>1, <1>2, RunMoves DEF CheckoutInv
<1>6. Typed'
  BY <1>1, <1>3, <1>5 DEF CheckoutInv, Typed
<1>7. Awaited'
  BY <1>1, <1>2, <1>3, <1>5 DEF CheckoutInv, Awaited, At, Typed
<1>8. TemporariesOwned'
  BY <1>1, <1>2, <1>5 DEF CheckoutInv, TemporariesOwned, HoldsRecord, At
<1>9. NoSilentReplacement'
  BY <1>1, <1>3, <1>4 DEF CheckoutInv, NoSilentReplacement, OnRecord
<1>10. (\A q \in Terminals : Decided(q))'
  BY <1>1, <1>2, <1>3, <1>4, <1>5 DEF CheckoutInv, Decided, OnRecord, At, Saving
<1>11. CredentialsGiven'
  BY <1>1, <1>2, <1>5 DEF CheckoutInv, CredentialsGiven, Given, Confirming
<1> QED
  BY <1>6, <1>7, <1>8, <1>9, <1>10, <1>11 DEF CheckoutInv

LEMMA DropInv == ASSUME CheckoutInv, NEW m \in net, Drop(m) PROVE CheckoutInv'
<1>1. net' \subseteq net
      /\ UNCHANGED <<record, recordTmp, config, configTmp, cli, publication, answered, abandoned>>
  BY DEF Drop, service, files
<1> QED
  BY <1>1 DEF CheckoutInv, Typed, Awaited, TemporariesOwned, HoldsRecord, At, NoSilentReplacement,
              Decided, OnRecord, CredentialsGiven, Given

\* A step of the service alone gives no capability a room.
LEMMA ServiceStepInv == ASSUME CheckoutInv, ServiceStep PROVE CheckoutInv'
<1>1. UNCHANGED <<record, recordTmp, config, configTmp, cli, net, publication, answered, abandoned>>
  BY DEF ServiceStep, Tick, HostRepublish, Republish, Change, HostDelete, Remove, files
<1> QED
  BY <1>1 DEF CheckoutInv, Typed, Awaited, TemporariesOwned, HoldsRecord, At, NoSilentReplacement,
              Decided, OnRecord, CredentialsGiven, Given

\* The room a request creates is on record, as the request was; its sender, if
\* it still waits, is given the answer the capability has got.
LEMMA ServeInv == ASSUME IInv, CheckoutInv, NEW m \in net, Serve(m) PROVE CheckoutInv'
<1>1. m \in [from : Terminals \cup {Nowhere}, cap : Caps, payload : Payloads] /\ m.cap \in Caps
  BY DEF CheckoutInv, Typed
<1>2. /\ net' = net \ {m}
      /\ UNCHANGED <<record, recordTmp, config, configTmp, abandoned>>
  BY DEF Serve, files
<1>3. /\ \A h \in Caps : h # m.cap => publication'[h] = publication[h]
      /\ \E creds \in Creds : Reply(m, creds) /\ creds \in answered'[m.cap]
      /\ \A h \in Caps : answered[h] \subseteq answered'[h]
  <2>1. CASE \E i \in Ids, k \in Keys :
               Publish(m.cap, i, k, m.payload, now) /\ Reply(m, <<k, i>>)
    <3>1. PICK i \in Ids, k \in Keys : Publish(m.cap, i, k, m.payload, now) /\ Reply(m, <<k, i>>)
      BY <2>1
    <3> DEFINE h == m.cap
    <3>2. /\ publication' = [publication EXCEPT ![h] = [room |-> i, payload |-> m.payload]]
          /\ answered' = [answered EXCEPT ![h] = answered[h] \cup {<<k, i>>}]
      BY <3>1 DEF Publish
    <3>3. h \in Caps /\ <<k, i>> \in Creds
      BY <1>1 DEF Creds
    <3> HIDE DEF h
    <3>4. /\ \A g \in Caps : g # h => publication'[g] = publication[g] /\ answered'[g] = answered[g]
          /\ answered'[h] = answered[h] \cup {<<k, i>>}
      BY <3>2, <3>3 DEF IInv, TypeOK
    <3> QED
      BY <3>1, <3>3, <3>4 DEF h
  <2>2. CASE /\ Replay(m.cap, m.payload)
             /\ LET i == publication[m.cap].room IN Reply(m, <<rooms[i].key, i>>)
    <3> DEFINE h == m.cap
               i == publication[h].room
               a == <<rooms[i].key, i>>
    <3>1. /\ publication' = publication /\ publication[h] # NoRoom /\ i \in DOMAIN rooms
          /\ answered' = [answered EXCEPT ![h] = answered[h] \cup {a}] /\ Reply(m, a)
      BY <2>2 DEF Replay, MayAnswer
    <3>2. rooms[i].key \in Keys /\ i \in Ids
      BY <3>1 DEF IInv, TypeOK, Row
    <3>3. a \in Creds /\ h \in Caps
      BY <1>1, <3>2 DEF Creds
    <3> HIDE DEF a, h, i
    <3>4. /\ \A g \in Caps : g # h => answered'[g] = answered[g]
          /\ answered'[h] = answered[h] \cup {a}
      BY <3>1, <3>3 DEF IInv, TypeOK
    <3> QED
      BY <3>1, <3>3, <3>4 DEF h
  <2> QED
    BY <2>1, <2>2 DEF Serve
<1>4. \A creds : Given(creds) => Given(creds)'
  BY <1>3 DEF Given
<1>5. NoSilentReplacement'
  BY <1>1, <1>2, <1>3 DEF CheckoutInv, NoSilentReplacement
<1>6. CASE UNCHANGED cli
  <2>1. Typed' /\ Awaited' /\ TemporariesOwned' /\ (\A p \in Terminals : Decided(p))'
    BY <1>2, <1>6 DEF CheckoutInv, Typed, Awaited, TemporariesOwned, HoldsRecord, At, Decided, OnRecord
  <2>2. CredentialsGiven'
    BY <1>2, <1>4, <1>6 DEF CheckoutInv, CredentialsGiven
  <2> QED
    BY <1>5, <2>1, <2>2 DEF CheckoutInv
<1>7. CASE m.from # Nowhere /\ \E creds \in Creds :
             /\ cli' = [cli EXCEPT ![m.from] = [pc |-> "acknowledged", creds |-> creds]]
             /\ creds \in answered'[m.cap]
  <2>1. PICK creds \in Creds : /\ cli' = [cli EXCEPT ![m.from] = [pc |-> "acknowledged", creds |-> creds]]
                               /\ creds \in answered'[m.cap]
    BY <1>7
  <2>2. PICK p \in Terminals : p = m.from
    BY <1>1, <1>7
  <2> DEFINE r == [pc |-> "acknowledged", creds |-> creds]
  <2>3. r \in RunState /\ r.pc = "acknowledged" /\ r.creds = creds
    BY DEF RunState, Confirming
  <2> HIDE DEF r
  <2>4. /\ cli' \in [Terminals -> RunState] /\ cli'[p] = r
        /\ \A q \in Terminals : q # p => cli'[q] = cli[q]
    BY <2>1, <2>2, <2>3, RunMoves DEF CheckoutInv, r
  <2>5. At(p, "wait") /\ p # Nowhere
    BY <1>7, <2>2 DEF CheckoutInv, Awaited
  <2>6. Typed'
    BY <1>2, <2>4 DEF CheckoutInv, Typed
  <2>7. Awaited'
    <3>1. ASSUME NEW n \in net, n.from = p PROVE n = m
      <4>1. n \in [from : Terminals \cup {Nowhere}, cap : Caps, payload : Payloads]
        BY DEF CheckoutInv, Typed
      <4>2. [cap |-> n.cap, payload |-> n.payload] = [cap |-> m.cap, payload |-> m.payload]
        BY <2>2, <2>5, <3>1 DEF CheckoutInv, Awaited
      <4>3. n.cap = m.cap /\ n.payload = m.payload
        BY <4>2
      <4> QED
        BY <1>1, <2>2, <3>1, <4>1, <4>3
    <3> QED
      BY <1>2, <2>2, <2>4, <3>1 DEF CheckoutInv, Awaited, At, Typed
  <2>8. TemporariesOwned'
    BY <1>2, <2>3, <2>4 DEF CheckoutInv, TemporariesOwned, HoldsRecord, At
  <2>9. (\A q \in Terminals : Decided(q))'
    BY <1>2, <2>3, <2>4 DEF CheckoutInv, Decided, OnRecord, At, Saving, Posting
  <2>10. CredentialsGiven'
    <3>1. Given(creds)'
      BY <1>1, <2>1 DEF Given
    <3> QED
      BY <1>2, <1>4, <2>3, <2>4, <3>1 DEF CheckoutInv, CredentialsGiven
  <2> QED
    BY <1>5, <2>6, <2>7, <2>8, <2>9, <2>10 DEF CheckoutInv
<1> QED
  BY <1>3, <1>6, <1>7 DEF Reply

LEMMA RecoveryNextInv == RecoveryInv /\ [RecoveryNext]_allVars => RecoveryInv' /\ [Next]_vars
<1> SUFFICES ASSUME RecoveryInv, [RecoveryNext]_allVars PROVE RecoveryInv' /\ [Next]_vars
  OBVIOUS
<1>1. IInv /\ CheckoutInv
  BY DEF RecoveryInv, CheckoutInv
<1>2. [Next]_vars
  <2>1. CASE UNCHANGED allVars
    BY <2>1 DEF allVars, service, vars
  <2> QED
    BY <1>1, <2>1, ServiceOperation DEF CheckoutInv
<1>3. IInv'
  BY <1>1, <1>2, NextInv
<1>4. CheckoutInv'
  <2>1. CASE UNCHANGED allVars
    BY <1>1, <2>1 DEF allVars, service, files, CheckoutInv, Typed, Awaited, TemporariesOwned, HoldsRecord, At,
                      NoSilentReplacement, Decided, OnRecord, CredentialsGiven, Given
  <2>2. ASSUME NEW p \in Terminals, NEW mode \in Modes, Start(p, mode) PROVE CheckoutInv'
    BY <1>1, <2>2, StartInv
  <2>3. ASSUME NEW p \in Terminals, Run(p) PROVE CheckoutInv'
    BY <1>1, <2>3, PrepareInv, CheckStorageInv, CreateTemporaryInv, CompareInv, RenameRecordInv, SendInv,
       CreateConfigInv, RenameConfigInv DEF Run
  <2>4. ASSUME NEW p \in Terminals, GiveUp(p) \/ Crash(p) PROVE CheckoutInv'
    BY <1>1, <2>4, GiveUpInv, CrashInv
  <2>5. ASSUME NEW m \in net, Serve(m) \/ Drop(m) PROVE CheckoutInv'
    BY <1>1, <2>5, ServeInv, DropInv
  <2>6. CASE RemoveLeftovers \/ ServiceStep
    BY <1>1, <2>6, RemoveLeftoversInv, ServiceStepInv
  <2> QED
    BY <2>1, <2>2, <2>3, <2>4, <2>5, <2>6 DEF RecoveryNext
<1> QED
  BY <1>2, <1>3, <1>4 DEF RecoveryInv, CheckoutInv

-----------------------------------------------------------------------------
\* The invariant that carries the theorems below.
THEOREM RecoveryInvariance == RecoverySpec => []RecoveryInv
<1> QED
  BY RecoveryInitInv, RecoveryNextInv, PTL DEF RecoverySpec

\* Types; and no two runs share a temporary: what publish renames into place is
\* what the same run wrote, wherever other runs and crashes come in between.
THEOREM RecoveryOwnTemporary == RecoverySpec => []OwnTemporary
<1>1. RecoveryInv => OwnTemporary
  <2> SUFFICES ASSUME RecoveryInv PROVE OwnTemporary
    OBVIOUS
  <2>1. Typed /\ Awaited /\ TemporariesOwned
    BY DEF RecoveryInv
  <2>2. ASSUME NEW p \in Terminals
        PROVE  CASE At(p, "idle") -> TRUE
                 [] At(p, "read") -> cli[p].mode \in Modes /\ cli[p].body \in Payloads
                 [] cli[p].pc \in {"acknowledged", "credentials", "config"} -> cli[p].creds \in Creds
                 [] OTHER -> cli[p].state \in Record /\ cli[p].raw \in Record \cup {NoFile}
    BY <2>1, RunFields DEF At, Saving, Posting, Confirming
  <2>3. RecoveryTypeOK
    BY <2>1, <2>2 DEF RecoveryTypeOK, Typed, Awaited
  <2> QED
    BY <2>1, <2>3 DEF OwnTemporary, TemporariesOwned, HoldsRecord, At
<1> QED
  BY RecoveryInvariance, <1>1, PTL

\* A capability that may have a room is on record until the host explicitly asks
\* for another publication.
THEOREM RecoveryKeepsRecord == RecoverySpec => []NoSilentReplacement
<1>1. RecoveryInv => NoSilentReplacement
  BY DEF RecoveryInv
<1> QED
  BY RecoveryInvariance, <1>1, PTL

\* Saved credentials are exchanged for another room's only after the host asked
\* for another room.
THEOREM RecoveryKeepsCredentials == RecoverySpec => CredentialsStable
<1>1. RecoveryInv /\ [RecoveryNext]_allVars => [config # NoFile /\ config' # config => abandoned # {}]_allVars
  <2> SUFFICES ASSUME RecoveryInv, RecoveryNext, config # NoFile, config' # config, abandoned = {}
               PROVE  FALSE
    OBVIOUS
  <2>1. PICK p \in Terminals : RenameConfig(p)
    BY DEF RecoveryNext, Start, Run, Prepare, CheckStorage, CreateTemporary, Compare, RenameRecord, Send,
           CreateConfig, GiveUp, Crash, Serve, Drop, RemoveLeftovers, ServiceStep, files
  <2>2. config' = cli[p].creds /\ cli[p].pc \in Confirming
    BY <2>1 DEF RenameConfig, At, Confirming, RecoveryInv, TemporariesOwned
  <2>3. PICK h \in Caps : config \in answered[h]
    BY DEF RecoveryInv, CredentialsGiven, Given
  <2>4. PICK g \in Caps : config' \in answered[g]
    BY <2>2 DEF RecoveryInv, CredentialsGiven, Given
  <2>5. record.cap = h /\ record.cap = g
    BY <2>3, <2>4 DEF RecoveryInv, NoSilentReplacement, IInv, AnswersMatch
  <2> QED
    BY <2>3, <2>4, <2>5 DEF RecoveryInv, IInv, OneRoomPerCapability
<1> QED
  BY RecoveryInvariance, <1>1, PTL DEF RecoverySpec, CredentialsStable

\* Whatever the terminals do, the service they meet is the one RoomService
\* describes, so that a retried publish finds the room of the first.
THEOREM RecoveryUsesService == RecoverySpec => Spec
<1>1. RecoveryInit => Init
  BY DEF RecoveryInit
<1>2. RecoveryInv /\ [RecoveryNext]_allVars => [Next]_vars
  BY RecoveryNextInv
<1> QED
  BY RecoveryInvariance, <1>1, <1>2, PTL DEF RecoverySpec, Spec
=============================================================================
