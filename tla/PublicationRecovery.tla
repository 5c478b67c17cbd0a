------------------------ MODULE PublicationRecovery ------------------------
(***************************************************************************)
(* grill publish, with --recover and --new-publication, run any number of   *)
(* times and in several terminals over one checkout: the recovery record    *)
(* and the credentials file with their temporaries, the request on its way, *)
(* and the service as RoomService promises it.  A run may be killed at any  *)
(* step; a request may be lost, or be handled after its sender has given    *)
(* up; a reply may be lost.                                                 *)
(*                                                                          *)
(* A saved record and a request name the capability and the payload, which  *)
(* here includes the destination.                                           *)
(***************************************************************************)
EXTENDS RoomService

CONSTANTS
    Terminals,    \* where publish is run
    Modes,        \* how: "publish", --"recover", --"new"-publication
    Nowhere,      \* the sender of a request nobody waits for any more
    NoFile,       \* an absent file
    Drift         \* how far the host's clock is ahead of the service's

VARIABLES
    record,       \* .grill-with-me-publish.json
    recordTmp,    \* and its temporary
    config,       \* .grill-with-me.json: the key and token saved
    configTmp,    \* and its temporary
    cli,          \* the run in each terminal
    net,          \* requests sent and not yet handled
    abandoned     \* history: records replaced by an explicit --new-publication

service == <<now, rooms, minted, publication, answered, decisions>>
files   == <<record, recordTmp, config, configTmp>>
allVars == <<service, files, cli, net, abandoned>>

Record == [cap : Caps, payload : Payloads]
Creds  == Keys \X Ids

ASSUME RecoveryAssumption == NoFile \notin Record \cup Creds

Idle == [pc |-> "idle"]

At(p, pc) == cli[p].pc = pc
HostClock == now + Drift
\* Capabilities are random: a fresh one is in no file, no run and no request.
Minted == {cli[p].state.cap : p \in {q \in Terminals : "state" \in DOMAIN cli[q]}}
          \cup {f.cap : f \in {record, recordTmp} \ {NoFile}} \cup {m.cap : m \in net}
          \cup {h \in Caps : publication[h] # NoRoom} \cup abandoned
NoTemporaries == recordTmp = NoFile /\ configTmp = NoFile

Stop(p) == cli' = [cli EXCEPT ![p] = Idle]

RecoveryInit ==
    /\ Init
    /\ record = NoFile /\ recordTmp = NoFile /\ config = NoFile /\ configTmp = NoFile
    /\ cli = [p \in Terminals |-> Idle]
    /\ net = {} /\ abandoned = {}

\* The host runs publish; the room file may have been edited since last time.
Start(p, mode) ==
    /\ At(p, "idle")
    /\ \E body \in Payloads : cli' = [cli EXCEPT ![p] = [pc |-> "read", mode |-> mode, body |-> body]]
    /\ UNCHANGED <<service, files, net, abandoned>>

\* Faulty: --recover also insists on the body the room file has now.
ReusableSameBody(p) ==
    /\ record.payload = cli[p].body
    /\ InWindow(record.cap, HostClock)

\* --recover resends the saved body; publish must be asked for the same one.
Reusable(p) ==
    /\ cli[p].mode = "publish" => record.payload = cli[p].body
    /\ InWindow(record.cap, HostClock)

\* Reuse the saved record as it is, or mint a capability for a new one.
Prepare(p) ==
    /\ At(p, "read")
    /\ LET fresh == {h \in Caps \ Minted : Issued[h] = HostClock}
           run(pc, state) == [pc |-> pc, mode |-> cli[p].mode, raw |-> record, state |-> state]
       IN  CASE record = NoFile /\ cli[p].mode = "recover" -> Stop(p)
             [] record # NoFile /\ cli[p].mode # "new" ->
                   IF Reusable(p) THEN cli' = [cli EXCEPT ![p] = run("ready", record)] ELSE Stop(p)
             [] OTHER -> \* bound: Caps may be used up
                   IF fresh = {} THEN Stop(p)
                   ELSE \E h \in fresh :
                           cli' = [cli EXCEPT ![p] = run("save", [cap |-> h, payload |-> cli[p].body])]
    /\ UNCHANGED <<service, files, net, abandoned>>

\* prepareHostStorage, before a file is saved or a request leaves: leftover
\* temporaries stop the run.
Prepared == [save |-> "create", ready |-> "send", acknowledged |-> "credentials"]

CheckStorage(p) ==
    /\ cli[p].pc \in DOMAIN Prepared
    /\ IF NoTemporaries THEN cli' = [cli EXCEPT ![p].pc = Prepared[@]] ELSE Stop(p)
    /\ UNCHANGED <<service, files, net, abandoned>>

\* Faulty: the temporary is opened without the exclusive flag.
CreateOverwriting(p) ==
    /\ At(p, "create")
    /\ recordTmp' = cli[p].state
    /\ cli' = [cli EXCEPT ![p].pc = "compare"]
    /\ UNCHANGED <<service, record, config, configTmp, net, abandoned>>

\* The record's temporary is created exclusively (wx).
CreateTemporary(p) ==
    /\ At(p, "create")
    /\ IF recordTmp = NoFile
       THEN recordTmp' = cli[p].state /\ cli' = [cli EXCEPT ![p].pc = "compare"]
       ELSE Stop(p) /\ UNCHANGED recordTmp
    /\ UNCHANGED <<service, record, config, configTmp, net, abandoned>>

\* Faulty: the record is not read again before it is replaced.
CompareNothing(p) ==
    /\ At(p, "compare")
    /\ cli' = [cli EXCEPT ![p].pc = "rename"]
    /\ UNCHANGED <<service, files, net, abandoned>>

\* The record must still be the one this run decided on.
Compare(p) ==
    /\ At(p, "compare")
    /\ IF record = cli[p].raw
       THEN cli' = [cli EXCEPT ![p].pc = "rename"] /\ UNCHANGED recordTmp
       ELSE recordTmp' = NoFile /\ Stop(p)
    /\ UNCHANGED <<service, record, config, configTmp, net, abandoned>>

RenameRecord(p) ==
    /\ At(p, "rename")
    /\ record' = recordTmp /\ recordTmp' = NoFile
    /\ abandoned' = IF cli[p].mode = "new" /\ cli[p].raw # NoFile
                    THEN abandoned \cup {cli[p].raw.cap} ELSE abandoned
    /\ cli' = [cli EXCEPT ![p].pc = "ready"]
    /\ UNCHANGED <<service, config, configTmp, net>>

\* postJson: the request leaves.
Send(p) ==
    /\ At(p, "send")
    /\ net' = net \cup {[from |-> p, cap |-> cli[p].state.cap, payload |-> cli[p].state.payload]}
    /\ cli' = [cli EXCEPT ![p].pc = "wait"]
    /\ UNCHANGED <<service, files, abandoned>>

\* The credentials in the service's answer reach a sender that still waits.
Reply(m, creds) ==
    \/ UNCHANGED cli
    \/ /\ m.from # Nowhere
       /\ cli' = [cli EXCEPT ![m.from] = [pc |-> "acknowledged", creds |-> creds]]

\* A route handles a request: it creates the room or finds the one created.
Serve(m) ==
    /\ \/ \E i \in Ids, k \in Keys :
             /\ Publish(m.cap, i, k, m.payload, now)
             /\ Reply(m, <<k, i>>)
       \/ /\ Replay(m.cap, m.payload)
          /\ LET i == publication[m.cap].room IN Reply(m, <<rooms[i].key, i>>)
    /\ net' = net \ {m}
    /\ UNCHANGED <<files, abandoned>>

\* Refused, or lost on the way.
Drop(m) == net' = net \ {m} /\ UNCHANGED <<service, files, cli, abandoned>>

Orphaned(p) == {IF m.from = p THEN [m EXCEPT !.from = Nowhere] ELSE m : m \in net}

\* Faulty: the exchange goes on after its run has ended.
GiveUpWithoutAbort(p) ==
    /\ At(p, "wait")
    /\ Stop(p)
    /\ UNCHANGED <<service, files, net, abandoned>>

\* fetchJson's deadline, a refusal or a broken connection.
GiveUp(p) ==
    /\ At(p, "wait")
    /\ net' = Orphaned(p) /\ Stop(p)
    /\ UNCHANGED <<service, files, abandoned>>

\* saveHostConfig creates its temporary likewise, but what it replaces is not
\* compared with anything.
CreateConfig(p) ==
    /\ At(p, "credentials")
    /\ IF configTmp = NoFile
       THEN configTmp' = cli[p].creds /\ cli' = [cli EXCEPT ![p].pc = "config"]
       ELSE Stop(p) /\ UNCHANGED configTmp
    /\ UNCHANGED <<service, record, recordTmp, config, net, abandoned>>

RenameConfig(p) ==
    /\ At(p, "config")
    /\ config' = configTmp /\ configTmp' = NoFile
    /\ Stop(p)
    /\ UNCHANGED <<service, record, recordTmp, net, abandoned>>

\* The process is killed: temporaries stay, and so may its request.
Crash(p) ==
    /\ ~At(p, "idle")
    /\ net' = Orphaned(p) /\ Stop(p)
    /\ UNCHANGED <<service, files, abandoned>>

\* The host inspects and removes leftovers when nothing is running.
RemoveLeftovers ==
    /\ \A p \in Terminals : At(p, "idle")
    /\ ~NoTemporaries
    /\ recordTmp' = NoFile /\ configTmp' = NoFile
    /\ UNCHANGED <<service, record, config, cli, net, abandoned>>

\* The saved token is sent for the room it is bound to, and for no other.
SavedToken(k) == IF config # NoFile /\ config[1] = k THEN {config[2]} ELSE {}

\* grill republish and grill delete, with the saved token.
HostRepublish == \E i \in DOMAIN rooms, p \in Payloads : i \in SavedToken(rooms[i].key) /\ Republish(i, p)
HostDelete    == \E i \in DOMAIN rooms : i \in SavedToken(rooms[i].key) /\ Remove({i})

\* The host's other commands, maintenance, the clock.
ServiceStep ==
    /\ \/ Tick \/ HostRepublish \/ HostDelete
       \/ \E S \in SUBSET Ids : Remove({i \in S : i \in DOMAIN rooms /\ rooms[i].expires <= now})
    /\ UNCHANGED <<files, cli, net, abandoned>>

Run(p) == \/ Prepare(p) \/ CheckStorage(p) \/ CreateTemporary(p) \/ Compare(p) \/ RenameRecord(p)
          \/ Send(p) \/ CreateConfig(p) \/ RenameConfig(p)

RecoveryNext ==
    \/ \E p \in Terminals : \/ \E mode \in Modes : Start(p, mode)
                            \/ Run(p) \/ GiveUp(p) \/ Crash(p)
    \/ \E m \in net : Serve(m) \/ Drop(m)
    \/ RemoveLeftovers
    \/ ServiceStep

RecoverySpec == RecoveryInit /\ [][RecoveryNext]_allVars

\* The host keeps running publish --recover and clears leftovers; no step is
\* killed, and no request or reply is lost, every single time it is tried.
Answered(p) == At(p, "wait") /\ (\E m \in net : Serve(m)) /\ cli'[p].pc = "acknowledged"

FairRecovery ==
    /\ RecoverySpec
    /\ SF_allVars(RemoveLeftovers)
    /\ \A p \in Terminals :
          /\ SF_allVars(Start(p, "recover")) /\ WF_allVars(Run(p)) /\ WF_allVars(GiveUp(p))
          /\ SF_allVars(Prepare(p) /\ cli[p].mode = "recover")
          /\ \A pc \in DOMAIN Prepared : SF_allVars(At(p, pc) /\ CheckStorage(p) /\ NoTemporaries)
          /\ SF_allVars(Send(p)) /\ SF_allVars(CreateConfig(p)) /\ SF_allVars(RenameConfig(p))
          /\ SF_allVars(Answered(p))

-----------------------------------------------------------------------------
(* Type correctness; a reply is awaited by the run that asked.               *)
RecoveryTypeOK ==
    /\ record \in Record \cup {NoFile} /\ recordTmp \in Record \cup {NoFile}
    /\ config \in Creds \cup {NoFile} /\ configTmp \in Creds \cup {NoFile}
    /\ net \subseteq [from : Terminals \cup {Nowhere}, cap : Caps, payload : Payloads]
    /\ abandoned \subseteq Caps
    /\ \A m \in net : m.from # Nowhere =>
          At(m.from, "wait") /\ cli[m.from].state = [cap |-> m.cap, payload |-> m.payload]
    /\ \A p \in Terminals :
          CASE At(p, "idle") -> TRUE
            [] At(p, "read") -> cli[p].mode \in Modes /\ cli[p].body \in Payloads
            [] cli[p].pc \in {"acknowledged", "credentials", "config"} -> cli[p].creds \in Creds
            [] OTHER -> cli[p].state \in Record /\ cli[p].raw \in Record \cup {NoFile}

(* Types; and whatever is renamed into place is what this run wrote: no two  *)
(* runs share a temporary, however their steps interleave.                   *)
OwnTemporary ==
    /\ RecoveryTypeOK
    /\ \A p \in Terminals :
          /\ At(p, "compare") \/ At(p, "rename") => recordTmp = cli[p].state
          /\ At(p, "config") => configTmp = cli[p].creds

(* A capability that is on its way to the service, or has created a room, is *)
(* on record in the checkout until the host explicitly asks for another      *)
(* publication: no race, crash or retry silently replaces it.                *)
NoSilentReplacement ==
    \A h \in Caps : publication[h] # NoRoom \/ (\E m \in net : m.cap = h) =>
        (record # NoFile /\ record.cap = h) \/ h \in abandoned

(* Retries, late replies and deletions never exchange saved credentials for  *)
(* another room's, unless the host asked for another room.                   *)
CredentialsStable ==
    [][config # NoFile /\ config' # config => abandoned # {}]_allVars

(* A host that keeps recovering a saved publication ends with credentials,   *)
(* or with a publication that is over: its window closed or its room gone.   *)
Over(h) == \/ ~InWindow(h, HostClock) \/ ~InWindow(h, now)
           \/ publication[h] # NoRoom /\ ~Live(publication[h].room)

RecoveryEnds == record # NoFile ~> (config # NoFile \/ (record # NoFile /\ Over(record.cap)))
=============================================================================
