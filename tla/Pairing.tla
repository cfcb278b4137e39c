------------------------------ MODULE Pairing ------------------------------
(***************************************************************************)
(* Discovery and pairing: Rack processes that share a user directory, its  *)
(* secret file and their manifests (core/secret.cpp, core/manifest.cpp,    *)
(* RackBridge's start, stop, heartbeatLoop and resetPairing), and the MCP  *)
(* server that finds and pairs with one of them (discovery.ts,             *)
(* ConnectionManager::connectTo).                                          *)
(*                                                                         *)
(* In each process the UI thread walks through start, reset and stop, and  *)
(* a heartbeat thread publishes the manifest. Both write files the same    *)
(* way: a temporary of the process's own, flushed, renamed. A process may  *)
(* crash at any step and the machine lose power at any step. A process is  *)
(* one launch of Rack, hence one instance id. Ages of manifests, file      *)
(* modes and the reuse of process ids are left out.                        *)
(*                                                                         *)
(* writer is a history variable.                                           *)
(***************************************************************************)
EXTENDS Integers, FiniteSets

CONSTANTS
  Procs,       \* launches of Rack
  Ports,       \* TCP ports
  MaxSecrets,  \* secrets ever generated (bound)
  None         \* no process, port, secret or file

ASSUME PairingAssumption ==
  /\ None \notin Procs \cup Ports \cup Nat
  /\ "torn" \notin Ports \cup {None}
  /\ MaxSecrets \in Nat

VARIABLES
  pc,         \* where the UI thread of each process is
  memory,     \* the secret each process authenticates with
  fresh,      \* the secret each process has generated and not adopted
  tmp,        \* the temporary secret file of each process
  secretFile, \* <user>/RackMCP/secret
  generated,  \* secrets generated so far
  writer,     \* who wrote the secret file last
  port,       \* where each process listens
  beat,       \* the heartbeat thread of each process
  writing,    \* threads writing the manifest's temporary: the port they put in
  manifest,   \* instances/<id>.json
  client      \* the MCP server's connection

secrets == <<memory, fresh, tmp, secretFile, generated, writer>>
adverts == <<port, beat, writing, manifest>>
vars    == <<pc, secrets, adverts, client>>

Secrets == 1..MaxSecrets
Threads == {"ui", "heartbeat"}

\* A file's content, and whether it would survive a loss of power.
Torn == 0
SecretFile == [content : Secrets \cup {Torn}, synced : BOOLEAN] \cup {None}

\* start() and resetPairing(), step by step.
Places == {"launched", "generate", "starting write", "starting rename", "bind",
           "up", "reset write", "reset rename", "quiesce", "close", "rebind",
           "publish", "publishing", "withdrawn", "stopping", "stopped", "crashed"}

Alive(p) == pc[p] \notin {"stopped", "crashed"}

Beats == {"off", "on", "told to stop"}

Clients == [phase : {"idle", "scanned", "loaded", "welcomed", "selected"},
            target : Procs \cup {None}, port : Ports \cup {None},
            secret : Secrets \cup {None}, peer : Procs \cup {None}]

Idle == [phase |-> "idle", target |-> None, port |-> None, secret |-> None, peer |-> None]

TypeOK ==
  /\ pc \in [Procs -> Places]
  /\ memory \in [Procs -> Secrets \cup {None}]
  /\ fresh \in [Procs -> Secrets \cup {None}]
  /\ tmp \in [Procs -> SecretFile]
  /\ secretFile \in SecretFile
  /\ generated \in 0..MaxSecrets
  /\ writer \in Procs \cup {None}
  /\ port \in [Procs -> Ports \cup {None}]
  /\ beat \in [Procs -> Beats]
  /\ writing \in [Procs -> [Threads -> Ports \cup {None}]]
  /\ manifest \in [Procs -> Ports \cup {None, "torn"}]
  /\ client \in Clients

Init ==
  /\ pc = [p \in Procs |-> "launched"]
  /\ memory = [p \in Procs |-> None]
  /\ fresh = [p \in Procs |-> None]
  /\ tmp = [p \in Procs |-> None]
  /\ secretFile = None
  /\ generated = 0
  /\ writer = None
  /\ port = [p \in Procs |-> None]
  /\ beat = [p \in Procs |-> "off"]
  /\ writing = [p \in Procs |-> [t \in Threads |-> None]]
  /\ manifest = [p \in Procs |-> None]
  /\ client = Idle

Goto(p, from, to) ==
  /\ pc[p] = from
  /\ pc' = [pc EXCEPT ![p] = to]

-----------------------------------------------------------------------------
(* The secret file *)

Readable(file) == file # None /\ file.content # Torn

\* loadOrCreateSecret: a file that is absent or malformed is replaced.
ReadSecret(p) ==
  /\ Goto(p, "launched", IF Readable(secretFile) THEN "bind" ELSE "generate")
  /\ memory' = [memory EXCEPT ![p] = IF Readable(secretFile) THEN secretFile.content ELSE None]
  /\ UNCHANGED <<fresh, tmp, secretFile, generated, writer, adverts, client>>

\* generateSecret, and writePrivateFileAtomic up to the middle of its write.
Generate(p) ==
  /\ \/ Goto(p, "generate", "starting write")
     \/ Goto(p, "up", "reset write")
  /\ generated < MaxSecrets
  /\ generated' = generated + 1
  /\ fresh' = [fresh EXCEPT ![p] = generated']
  /\ tmp' = [tmp EXCEPT ![p] = [content |-> Torn, synced |-> FALSE]]
  /\ UNCHANGED <<memory, secretFile, writer, adverts, client>>

\* Faulty variant: the temporary is renamed without having been flushed.
NotFlushed(secret) == [content |-> secret, synced |-> FALSE]

Flushed(secret) == [content |-> secret, synced |-> TRUE]

FlushSecret(p) ==
  /\ \/ Goto(p, "starting write", "starting rename")
     \/ Goto(p, "reset write", "reset rename")
  /\ tmp' = [tmp EXCEPT ![p] = Flushed(fresh[p])]
  /\ UNCHANGED <<memory, fresh, secretFile, generated, writer, adverts, client>>

\* A write, flush or rename fails: the temporary is removed. A start gives up and
\* leaves the bridge disabled; a reset leaves everything as it was.
SecretWriteFails(p) ==
  /\ \/ Goto(p, "starting write", "stopped") \/ Goto(p, "starting rename", "stopped")
     \/ Goto(p, "reset write", "up") \/ Goto(p, "reset rename", "up")
  /\ tmp' = [tmp EXCEPT ![p] = None]
  /\ fresh' = [fresh EXCEPT ![p] = None]
  /\ UNCHANGED <<memory, secretFile, generated, writer, adverts, client>>

\* A start adopts the new secret here, a reset when it restarts the server.
RenameSecret(p) ==
  /\ \/ /\ Goto(p, "starting rename", "bind")
        /\ memory' = [memory EXCEPT ![p] = fresh[p]]
        /\ fresh' = [fresh EXCEPT ![p] = None]
     \/ /\ Goto(p, "reset rename", "quiesce")
        /\ UNCHANGED <<memory, fresh>>
  /\ secretFile' = tmp[p]
  /\ tmp' = [tmp EXCEPT ![p] = None]
  /\ writer' = p
  /\ UNCHANGED <<generated, adverts, client>>

-----------------------------------------------------------------------------
(* The listener and the manifest *)

Free(k) == \A p \in Procs : port[p] # k

\* BridgeServer::start on any free port, then the heartbeat thread.
Bind(p) ==
  \/ /\ Goto(p, "bind", "up")
     /\ \E k \in Ports : Free(k) /\ port' = [port EXCEPT ![p] = k]
     /\ beat' = [beat EXCEPT ![p] = "on"]
     /\ UNCHANGED <<secrets, writing, manifest, client>>
  \/ /\ Goto(p, "bind", "stopped")
     /\ UNCHANGED <<secrets, adverts, client>>

\* heartbeatLoop: writeManifestNow reads the port first; both threads of a
\* process use the same temporary name.
BeginManifest(p, t) == writing' = [writing EXCEPT ![p][t] = port[p]]

\* The rename publishes whatever the temporary holds by then.
FinishManifest(p, t) ==
  /\ writing[p][t] # None
  /\ writing' = [writing EXCEPT ![p][t] = None]
  /\ manifest' = [manifest EXCEPT ![p] =
       IF \E u \in Threads \ {t} : writing[p][u] # None THEN "torn" ELSE writing[p][t]]

HeartbeatBegins(p) ==
  /\ Alive(p) /\ beat[p] = "on" /\ writing[p]["heartbeat"] = None
  /\ port[p] # None
  /\ BeginManifest(p, "heartbeat")
  /\ UNCHANGED <<pc, secrets, port, beat, manifest, client>>

HeartbeatPublishes(p) ==
  /\ Alive(p) /\ beat[p] # "off"
  /\ FinishManifest(p, "heartbeat")
  /\ UNCHANGED <<pc, secrets, port, beat, client>>

HeartbeatExits(p) ==
  /\ Alive(p) /\ beat[p] = "told to stop" /\ writing[p]["heartbeat"] = None
  /\ beat' = [beat EXCEPT ![p] = "off"]
  /\ UNCHANGED <<pc, secrets, port, writing, manifest, client>>

StopHeartbeat(p) == beat' = [beat EXCEPT ![p] = IF @ = "on" THEN "told to stop" ELSE @]

\* Faulty variant: the thread is told to stop and not joined.
HeartbeatNotJoined(p) == TRUE

HeartbeatJoined(p) == beat[p] = "off"

-----------------------------------------------------------------------------
(* resetPairing after the rotation, and stop *)

Quiesce(p) ==
  /\ Goto(p, "quiesce", "close")
  /\ StopHeartbeat(p)
  /\ UNCHANGED <<secrets, port, writing, manifest, client>>

\* Every session ends with the listener.
CloseListener(p) ==
  /\ port' = [port EXCEPT ![p] = None]
  /\ client' = IF client.peer = p THEN Idle ELSE client

Close(p) ==
  /\ HeartbeatJoined(p)
  /\ Goto(p, "close", "rebind")
  /\ CloseListener(p)
  /\ UNCHANGED <<secrets, beat, writing, manifest>>

\* Faulty variants: the restarted server still authenticates with the old secret,
\* or with one that was never written.
KeepsOld(p) == memory[p]
NeverWritten(p) == generated + 1

Adopted(p) == fresh[p]

\* Faulty variant: the heartbeat resumes before the new port is published.
ResumesEarly(p) == beat' = [beat EXCEPT ![p] = "on"]

StaysQuiet(p) == UNCHANGED beat

\* The new server has the new secret. Without a listener the instance withdraws.
Rebind(p) ==
  \/ /\ Goto(p, "rebind", "publish")
     /\ \E k \in Ports : Free(k) /\ port' = [port EXCEPT ![p] = k]
     /\ memory' = [memory EXCEPT ![p] = Adopted(p)]
     /\ fresh' = [fresh EXCEPT ![p] = None]
     /\ StaysQuiet(p)
     /\ UNCHANGED <<tmp, secretFile, generated, writer, writing, manifest, client>>
  \/ /\ Goto(p, "rebind", "withdrawn")
     /\ memory' = [memory EXCEPT ![p] = Adopted(p)]
     /\ fresh' = [fresh EXCEPT ![p] = None]
     /\ manifest' = [manifest EXCEPT ![p] = None]
     /\ UNCHANGED <<tmp, secretFile, generated, writer, port, beat, writing, client>>

PublishBegins(p) ==
  /\ Goto(p, "publish", "publishing")
  /\ BeginManifest(p, "ui")
  /\ UNCHANGED <<secrets, port, beat, manifest, client>>

Publish(p) ==
  /\ Goto(p, "publishing", "up")
  /\ FinishManifest(p, "ui")
  /\ beat' = [beat EXCEPT ![p] = "on"]
  /\ UNCHANGED <<secrets, port, client>>

\* RackBridge::stop, at unload.
Stop(p) ==
  /\ \/ Goto(p, "up", "stopping") \/ Goto(p, "withdrawn", "stopping")
  /\ StopHeartbeat(p)
  /\ UNCHANGED <<secrets, port, writing, manifest, client>>

StopFinishes(p) ==
  /\ HeartbeatJoined(p)
  /\ Goto(p, "stopping", "stopped")
  /\ CloseListener(p)
  /\ manifest' = [manifest EXCEPT ![p] = None]
  /\ memory' = [memory EXCEPT ![p] = None]
  /\ UNCHANGED <<fresh, tmp, secretFile, generated, writer, beat, writing>>

-----------------------------------------------------------------------------
(* Crashes *)

Crash(p) ==
  /\ Alive(p)
  /\ pc' = [pc EXCEPT ![p] = "crashed"]
  /\ CloseListener(p)
  /\ beat' = [beat EXCEPT ![p] = "off"]
  /\ writing' = [writing EXCEPT ![p] = [t \in Threads |-> None]]
  /\ UNCHANGED <<secrets, manifest>>

AfterPowerLoss(file) ==
  IF file # None /\ ~file.synced THEN [content |-> Torn, synced |-> TRUE] ELSE file

\* The machine stops; what was not flushed is lost. Everything is launched anew
\* by processes that have not run yet.
PowerLoss ==
  /\ \E p \in Procs : Alive(p) /\ pc[p] # "launched"
  /\ pc' = [p \in Procs |-> IF pc[p] \in {"launched", "stopped"} THEN pc[p] ELSE "crashed"]
  /\ secretFile' = AfterPowerLoss(secretFile)
  /\ tmp' = [p \in Procs |-> AfterPowerLoss(tmp[p])]
  /\ port' = [p \in Procs |-> None]
  /\ beat' = [p \in Procs |-> "off"]
  /\ writing' = [p \in Procs |-> [t \in Threads |-> None]]
  /\ client' = Idle
  /\ UNCHANGED <<memory, fresh, generated, writer, manifest>>

-----------------------------------------------------------------------------
(* The MCP server: select, under the connect lock *)

\* scanInstances: a manifest that parses, of a process that is alive.
Scan(p) ==
  /\ client.phase = "idle"
  /\ Alive(p) /\ manifest[p] \in Ports
  /\ client' = [Idle EXCEPT !.phase = "scanned", !.target = p, !.port = manifest[p]]
  /\ UNCHANGED <<pc, secrets, adverts>>

LoadSecret ==
  /\ client.phase = "scanned"
  /\ client' = IF Readable(secretFile)
               THEN [client EXCEPT !.phase = "loaded", !.secret = secretFile.content]
               ELSE Idle
  /\ UNCHANGED <<pc, secrets, adverts>>

\* TCP connect, hello and welcome: from whoever listens on that port.
Connect ==
  /\ client.phase = "loaded"
  /\ \/ \E p \in Procs : /\ port[p] = client.port
                         /\ client' = [client EXCEPT !.phase = "welcomed", !.peer = p]
     \/ Free(client.port) /\ client' = Idle
  /\ UNCHANGED <<pc, secrets, adverts>>

\* selected.instanceId is the welcome's.
Authenticate ==
  /\ client.phase = "welcomed"
  /\ client' = IF memory[client.peer] = client.secret
               THEN [client EXCEPT !.phase = "selected"]
               ELSE Idle
  /\ UNCHANGED <<pc, secrets, adverts>>

ProcessStep(p) ==
  \/ ReadSecret(p) \/ FlushSecret(p) \/ RenameSecret(p) \/ Bind(p)
  \/ HeartbeatBegins(p) \/ HeartbeatPublishes(p) \/ HeartbeatExits(p)
  \/ Quiesce(p) \/ Close(p) \/ Rebind(p) \/ PublishBegins(p) \/ Publish(p)
  \/ StopFinishes(p)

ClientStep == (\E p \in Procs : Scan(p)) \/ LoadSecret \/ Connect \/ Authenticate

Next ==
  \/ \E p \in Procs :
       \/ ProcessStep(p)
       \/ Generate(p) \/ SecretWriteFails(p) \/ Stop(p) \/ Crash(p)
  \/ PowerLoss
  \/ ClientStep

Spec == Init /\ [][Next]_vars

\* Threads run, and the server tries again.
LiveSpec ==
  Spec /\ WF_vars(ClientStep) /\ \A p \in Procs : WF_vars(ProcessStep(p))

-----------------------------------------------------------------------------
(* Properties *)

\* Whatever crashes and whenever, the secret file is absent or a whole secret.
SecretFileWhole == secretFile # None => Readable(secretFile)

\* No manifest is ever published half-written, though two threads of a process
\* share the name of its temporary.
ManifestWhole == \A p \in Procs : manifest[p] # "torn"

\* No file that others read is ever seen half-written.
Consistent == TypeOK /\ SecretFileWhole /\ ManifestWhole

\* A process that serves clients advertises the port it listens on or nothing yet;
\* one that stopped, or withdrew because its listener would not restart,
\* advertises nothing and no thread of it is about to.
AdvertisesTruly ==
  \A p \in Procs :
    /\ pc[p] = "up" => manifest[p] \in {None, port[p]}
    /\ pc[p] \in {"withdrawn", "stopped"}
       => manifest[p] = None /\ \A t \in Threads : writing[p][t] = None

\* A process that serves clients authenticates with the secret in the file unless
\* another process has replaced that file, through failed and finished resets.
ServesWhatItWrote ==
  \A p \in Procs :
    pc[p] = "up" /\ writer = p => secretFile.content = memory[p]

\* If one process stays up on a secret file it wrote last, and no other is running,
\* a server that keeps trying is paired with it in the end: after a reset it
\* re-reads manifest and secret (docs/security/pairing-and-multi-instance.md,
\* "Resetting"), and no dead process's manifest leads it astray for ever.
RePairs ==
  \A p \in Procs :
    <>[](/\ pc[p] = "up" /\ writer = p
         /\ \A q \in Procs \ {p} : pc[q] \in {"launched", "stopped", "crashed"})
    => <>[](client.phase = "selected")

-----------------------------------------------------------------------------
(* What documents and comments say *)

\* "both share the one pairing secret" (pairing-and-multi-instance.md, Option A).
OnePairingSecret ==
  \A p, q \in Procs : pc[p] = "up" /\ pc[q] = "up" => memory[p] = memory[q]

\* A connect does not end at "an instance the caller did not ask for"
\* (connection.ts, connectTo).
SelectsWhatWasAsked == client.phase = "selected" => client.peer = client.target
=============================================================================
