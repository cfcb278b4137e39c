---------------------------- MODULE PairingProofs ----------------------------
(***************************************************************************)
(* Proofs about Pairing for any set of processes and ports, any number of  *)
(* secrets, and crashes and losses of power at any step.                   *)
(*                                                                         *)
(* The secret file is whole because only a flushed temporary is renamed. A *)
(* process agrees with the file it wrote because it adopts what it wrote,  *)
(* at a start with the rename and at a reset when it listens again. What   *)
(* it advertises is true because a manifest is only ever being written by  *)
(* one thread, with the port of the listener that is open meanwhile.       *)
(***************************************************************************)
EXTENDS Pairing, TLAPS

\* The process listens and publishes its manifest by the heartbeat.
Beating == {"up", "reset write", "reset rename", "quiesce"}

\* It has never published, or has withdrawn what it published.
Unpublished == {"launched", "generate", "starting write", "starting rename", "bind", "withdrawn", "stopped"}

\* A secret has been generated and not adopted.
Rotating == {"starting write", "reset write", "starting rename", "reset rename", "quiesce", "close", "rebind"}

\* The secret file would survive a loss of power at any time.
FileSafe == secretFile # None => secretFile.synced /\ secretFile.content \in Secrets

\* What p is about to rename is whole and flushed.
Rotation(p) ==
  /\ pc[p] \in Rotating => fresh[p] \in Secrets
  /\ pc[p] \in {"starting rename", "reset rename"} => tmp[p] = Flushed(fresh[p])

\* If the file on disk is p's, p uses its secret or is about to adopt it.
OwnFile(p) ==
  writer = p =>
    /\ pc[p] \in {"bind", "up", "reset write", "reset rename", "publish", "publishing"}
       => secretFile.content = memory[p]
    /\ pc[p] \in {"quiesce", "close", "rebind"} => secretFile.content = fresh[p]

\* Who may be writing the manifest, and the port that is being put in.
OneWriter(p) ==
  /\ beat[p] = "on" => pc[p] \in Beating
  /\ beat[p] = "told to stop" => pc[p] \in {"close", "stopping"}
  /\ writing[p]["heartbeat"] # None => beat[p] # "off" /\ writing[p]["heartbeat"] = port[p]
  /\ writing[p]["ui"] # None => pc[p] = "publishing" /\ writing[p]["ui"] = port[p]

\* What the manifest says from place to place.
TrueManifest(p) ==
  /\ manifest[p] # "torn"
  /\ pc[p] \in Beating => manifest[p] \in {None, port[p]}
  /\ pc[p] \in Unpublished => manifest[p] = None

Orderly(p) == Rotation(p) /\ OwnFile(p) /\ OneWriter(p) /\ TrueManifest(p)

IInv == TypeOK /\ FileSafe /\ \A p \in Procs : Orderly(p)

-----------------------------------------------------------------------------
LEMMA Values ==
  /\ MaxSecrets \in Nat /\ Secrets \subseteq Nat /\ Torn \notin Secrets /\ None \notin Secrets
  /\ None \notin Ports /\ None \notin Procs /\ "torn" \notin Ports /\ "torn" # None
  BY PairingAssumption DEF Secrets, Torn

\* What the files can hold.
LEMMA Files ==
  /\ \A s \in Secrets : Flushed(s) \in SecretFile
  /\ [content |-> Torn, synced |-> FALSE] \in SecretFile
  /\ None \in SecretFile
  /\ \A file \in SecretFile : AfterPowerLoss(file) \in SecretFile
  /\ \A file \in SecretFile : Readable(file) => file.content \in Secrets
<1>1. \A s \in Secrets : Flushed(s) \in SecretFile
  BY DEF Flushed, SecretFile
<1>2. [content |-> Torn, synced |-> FALSE] \in SecretFile /\ None \in SecretFile
  BY DEF SecretFile
<1>3. \A file \in SecretFile : AfterPowerLoss(file) \in SecretFile
  BY DEF SecretFile, AfterPowerLoss
<1>4. \A file \in SecretFile : Readable(file) => file.content \in Secrets
  BY DEF SecretFile, Readable
<1> QED
  BY <1>1, <1>2, <1>3, <1>4

\* Nothing of process q changes.
Same(q) ==
  /\ pc'[q] = pc[q] /\ memory'[q] = memory[q] /\ fresh'[q] = fresh[q] /\ tmp'[q] = tmp[q]
  /\ port'[q] = port[q] /\ beat'[q] = beat[q] /\ writing'[q] = writing[q] /\ manifest'[q] = manifest[q]

\* A process is not disturbed by the steps of others, unless they write the secret
\* file, which is then not its own any more.
LEMMA Undisturbed ==
  ASSUME NEW q \in Procs, Orderly(q), Same(q), writer' = q => writer = q /\ secretFile' = secretFile
  PROVE  Orderly(q)'
<1> USE DEF Same
<1>1. Rotation(q)'
  BY DEF Orderly, Rotation
<1>2. OwnFile(q)'
  BY DEF Orderly, OwnFile
<1>3. OneWriter(q)'
  BY DEF Orderly, OneWriter
<1>4. TrueManifest(q)'
  BY DEF Orderly, TrueManifest
<1> QED
  BY <1>1, <1>2, <1>3, <1>4 DEF Orderly

\* The places are as many as their names.
LEMMA PlaceNames ==
  /\ "launched" \in Places /\ "generate" \in Places /\ "starting write" \in Places
  /\ "starting rename" \in Places /\ "bind" \in Places /\ "up" \in Places
  /\ "reset write" \in Places /\ "reset rename" \in Places /\ "quiesce" \in Places
  /\ "close" \in Places /\ "rebind" \in Places /\ "publish" \in Places
  /\ "publishing" \in Places /\ "withdrawn" \in Places /\ "stopping" \in Places
  /\ "stopped" \in Places /\ "crashed" \in Places
  BY DEF Places

LEMMA Goes ==
  ASSUME TypeOK, NEW p \in Procs, NEW to \in Places, pc' = [pc EXCEPT ![p] = to]
  PROVE  pc'[p] = to /\ pc' \in [Procs -> Places] /\ \A q \in Procs : q # p => pc'[q] = pc[q]
  BY DEF TypeOK

LEMMA ThreadNames ==
  "ui" \in Threads /\ "heartbeat" \in Threads /\ \A t \in Threads : t = "ui" \/ t = "heartbeat"
  BY DEF Threads

LEMMA IdleClient == Idle \in Clients
  BY DEF Idle, Clients

\* A thread that renames the temporary alone publishes what it put in.
LEMMA Finishes ==
  ASSUME TypeOK, NEW p \in Procs, NEW t \in Threads, FinishManifest(p, t),
         \A u \in Threads : u # t => writing[p][u] = None
  PROVE  /\ writing[p][t] \in Ports
         /\ writing' \in [Procs -> [Threads -> Ports \cup {None}]]
         /\ \A u \in Threads : writing'[p][u] = None
         /\ manifest' = [manifest EXCEPT ![p] = writing[p][t]]
         /\ \A q \in Procs : q # p => writing'[q] = writing[q]
<1>1. writing[p] \in [Threads -> Ports \cup {None}] /\ writing \in [Procs -> [Threads -> Ports \cup {None}]]
  BY DEF TypeOK
<1>2. writing[p][t] \in Ports
  BY <1>1 DEF FinishManifest
<1>3. writing' = [writing EXCEPT ![p][t] = None]
  BY DEF FinishManifest
<1>4. manifest' = [manifest EXCEPT ![p] = writing[p][t]]
  BY DEF FinishManifest
<1>5. \A q \in Procs : q # p => writing'[q] = writing[q]
  BY <1>3
<1>6. \A u \in Threads : writing'[p][u] = None
  BY <1>1, <1>3
<1>7. writing' \in [Procs -> [Threads -> Ports \cup {None}]]
  BY <1>1, <1>3
<1> QED
  BY <1>2, <1>4, <1>5, <1>6, <1>7

\* A thread that begins puts the open port into the temporary.
LEMMA Begins ==
  ASSUME TypeOK, NEW p \in Procs, NEW t \in Threads, BeginManifest(p, t)
  PROVE  /\ writing' \in [Procs -> [Threads -> Ports \cup {None}]]
         /\ writing'[p][t] = port[p]
         /\ \A u \in Threads : u # t => writing'[p][u] = writing[p][u]
         /\ \A q \in Procs : q # p => writing'[q] = writing[q]
<1>1. writing \in [Procs -> [Threads -> Ports \cup {None}]] /\ port[p] \in Ports \cup {None}
  BY DEF TypeOK
<1>2. writing' = [writing EXCEPT ![p][t] = port[p]]
  BY DEF BeginManifest
<1> QED
  BY <1>1, <1>2

\* A readable file is adopted, another one replaced.
LEMMA ReadSecretKeeps ==
  ASSUME IInv, NEW p \in Procs, ReadSecret(p)
  PROVE  IInv'
<1> USE DEF secrets, adverts
<1>1. TypeOK /\ FileSafe /\ Orderly(p)
  BY DEF IInv
<1>0. \/ pc[p] = "launched" /\ pc' = [pc EXCEPT ![p] = "bind"]
      \/ pc[p] = "launched" /\ pc' = [pc EXCEPT ![p] = "generate"]
  BY DEF ReadSecret, Goto
<1>2. /\ \/ pc[p] = "launched" /\ pc'[p] = "bind"
         \/ pc[p] = "launched" /\ pc'[p] = "generate"
      /\ pc' \in [Procs -> Places] /\ \A q \in Procs : q # p => pc'[q] = pc[q]
  BY <1>0, <1>1, PlaceNames, Goes
<1>a. memory'[p] = secretFile.content \/ pc'[p] = "generate"
  BY <1>1 DEF ReadSecret, Goto, TypeOK
<1>3. TypeOK'
  <2>1. memory' \in [Procs -> Secrets \cup {None}]
    BY <1>1, Files DEF ReadSecret, Readable, TypeOK
  <2> QED
    BY <1>1, <1>2, <2>1 DEF ReadSecret, TypeOK
<1>4. FileSafe'
  BY <1>1 DEF ReadSecret, FileSafe
<1>5. ASSUME NEW q \in Procs, q # p PROVE Orderly(q)'
  <2>1. Same(q)
    BY <1>2, <1>5 DEF ReadSecret, Same
  <2> QED
    BY <2>1, Undisturbed DEF IInv, ReadSecret
<1>6. Orderly(p)'
  <2>1. Rotation(p)'
    BY <1>1, <1>2, Values DEF ReadSecret, Readable, TypeOK, Orderly, Rotation, Rotating
  <2>2. OwnFile(p)'
    BY <1>1, <1>2, <1>a DEF ReadSecret, Orderly, OwnFile
  <2>3. OneWriter(p)'
    BY <1>1, <1>2, Values DEF ReadSecret, Readable, TypeOK, Orderly, OneWriter, Beating, Beats
  <2>4. TrueManifest(p)'
    BY <1>1, <1>2, Values DEF ReadSecret, Readable, TypeOK, Orderly, TrueManifest, Beating,
       Unpublished, OneWriter, Threads
  <2> QED
    BY <2>1, <2>2, <2>3, <2>4 DEF Orderly
<1> QED
  BY <1>3, <1>4, <1>5, <1>6 DEF IInv

\* A secret is generated beside the one in use.
LEMMA GenerateKeeps ==
  ASSUME IInv, NEW p \in Procs, Generate(p)
  PROVE  IInv'
<1> USE DEF secrets, adverts
<1>1. TypeOK /\ FileSafe /\ Orderly(p)
  BY DEF IInv
<1>0. \/ pc[p] = "generate" /\ pc' = [pc EXCEPT ![p] = "starting write"]
      \/ pc[p] = "up" /\ pc' = [pc EXCEPT ![p] = "reset write"]
  BY DEF Generate, Goto
<1>2. /\ \/ pc[p] = "generate" /\ pc'[p] = "starting write"
         \/ pc[p] = "up" /\ pc'[p] = "reset write"
      /\ pc' \in [Procs -> Places] /\ \A q \in Procs : q # p => pc'[q] = pc[q]
  BY <1>0, <1>1, PlaceNames, Goes
<1>a. generated \in Nat /\ generated < MaxSecrets /\ generated' = generated + 1
  <2>1. generated \in 0..MaxSecrets
    BY <1>1 DEF TypeOK
  <2>2. generated < MaxSecrets /\ generated' = generated + 1
    BY DEF Generate
  <2> QED
    BY <2>1, <2>2
<1>b. generated' \in 0..MaxSecrets /\ generated' \in Secrets
  BY <1>a, Values DEF Secrets
<1>3. TypeOK'
  <2>1. generated' \in 0..MaxSecrets
    BY <1>b
  <2>2. fresh' \in [Procs -> Secrets \cup {None}]
    BY <1>1, <1>b DEF Generate, TypeOK
  <2>3. tmp' \in [Procs -> SecretFile]
    BY <1>1, <1>2, Values, Files DEF Generate, TypeOK, Beats, Goto
  <2> QED
    BY <1>1, <1>2, <2>1, <2>2, <2>3 DEF Generate, TypeOK, CloseListener, StaysQuiet
<1>4. FileSafe'
  BY <1>1, <1>2 DEF Generate, FileSafe
<1>5. ASSUME NEW q \in Procs, q # p PROVE Orderly(q)'
  <2>1. Same(q)
    BY <1>1, <1>2, <1>5 DEF Generate, TypeOK, Same
  <2> QED
    BY <1>5, <2>1, Undisturbed DEF IInv, Generate
<1>6. Orderly(p)'
  <2>1. Rotation(p)'
    BY <1>1, <1>2, <1>b DEF Generate, TypeOK, Rotation
  <2>2. OwnFile(p)'
    BY <1>1, <1>2, Values DEF Generate, TypeOK, Orderly, OwnFile
  <2>3. OneWriter(p)'
    BY <1>1, <1>2, Values DEF Generate, TypeOK, Orderly, OneWriter, Beating, Beats
  <2>4. TrueManifest(p)'
    BY <1>1, <1>2, Values DEF Generate, TypeOK, Orderly, TrueManifest, Beating, Unpublished,
       OneWriter, Threads
  <2> QED
    BY <2>1, <2>2, <2>3, <2>4 DEF Orderly
<1> QED
  BY <1>3, <1>4, <1>5, <1>6 DEF IInv

\* The temporary is whole once it is flushed.
LEMMA FlushSecretKeeps ==
  ASSUME IInv, NEW p \in Procs, FlushSecret(p)
  PROVE  IInv'
<1> USE DEF secrets, adverts
<1>1. TypeOK /\ FileSafe /\ Orderly(p)
  BY DEF IInv
<1>0. \/ pc[p] = "starting write" /\ pc' = [pc EXCEPT ![p] = "starting rename"]
      \/ pc[p] = "reset write" /\ pc' = [pc EXCEPT ![p] = "reset rename"]
  BY DEF FlushSecret, Goto
<1>2. /\ \/ pc[p] = "starting write" /\ pc'[p] = "starting rename"
         \/ pc[p] = "reset write" /\ pc'[p] = "reset rename"
      /\ pc' \in [Procs -> Places] /\ \A q \in Procs : q # p => pc'[q] = pc[q]
  BY <1>0, <1>1, PlaceNames, Goes
<1>3. TypeOK'
  <2>1. tmp' \in [Procs -> SecretFile]
    <3>1. Flushed(fresh[p]) \in SecretFile
      BY <1>1, <1>2, Files DEF Orderly, Rotation, Rotating
    <3> QED
      BY <1>1, <3>1 DEF FlushSecret, TypeOK
  <2> QED
    BY <1>1, <1>2, <2>1 DEF FlushSecret, TypeOK, CloseListener, StaysQuiet
<1>4. FileSafe'
  BY <1>1, <1>2 DEF FlushSecret, FileSafe
<1>5. ASSUME NEW q \in Procs, q # p PROVE Orderly(q)'
  <2>1. Same(q)
    BY <1>1, <1>2, <1>5 DEF FlushSecret, TypeOK, Same
  <2> QED
    BY <1>5, <2>1, Undisturbed DEF IInv, FlushSecret
<1>6. Orderly(p)'
  <2>1. Rotation(p)'
    BY <1>1, <1>2, Values DEF FlushSecret, TypeOK, Orderly, Rotation, Rotating
  <2>2. OwnFile(p)'
    BY <1>1, <1>2, Values DEF FlushSecret, TypeOK, Orderly, OwnFile
  <2>3. OneWriter(p)'
    BY <1>1, <1>2, Values DEF FlushSecret, TypeOK, Orderly, OneWriter, Beating, Beats
  <2>4. TrueManifest(p)'
    BY <1>1, <1>2, Values DEF FlushSecret, TypeOK, Orderly, TrueManifest, Beating, Unpublished,
       OneWriter, Threads
  <2> QED
    BY <2>1, <2>2, <2>3, <2>4 DEF Orderly
<1> QED
  BY <1>3, <1>4, <1>5, <1>6 DEF IInv

\* A failure leaves the file and the secret in use alone.
LEMMA SecretWriteFailsKeeps ==
  ASSUME IInv, NEW p \in Procs, SecretWriteFails(p)
  PROVE  IInv'
<1> USE DEF secrets, adverts
<1>1. TypeOK /\ FileSafe /\ Orderly(p)
  BY DEF IInv
<1>0. \/ pc[p] = "starting write" /\ pc' = [pc EXCEPT ![p] = "stopped"]
      \/ pc[p] = "starting rename" /\ pc' = [pc EXCEPT ![p] = "stopped"]
      \/ pc[p] = "reset write" /\ pc' = [pc EXCEPT ![p] = "up"]
      \/ pc[p] = "reset rename" /\ pc' = [pc EXCEPT ![p] = "up"]
  BY DEF SecretWriteFails, Goto
<1>2. /\ \/ pc[p] = "starting write" /\ pc'[p] = "stopped"
         \/ pc[p] = "starting rename" /\ pc'[p] = "stopped"
         \/ pc[p] = "reset write" /\ pc'[p] = "up"
         \/ pc[p] = "reset rename" /\ pc'[p] = "up"
      /\ pc' \in [Procs -> Places] /\ \A q \in Procs : q # p => pc'[q] = pc[q]
  BY <1>0, <1>1, PlaceNames, Goes
<1>3. TypeOK'
  <2>1. tmp' \in [Procs -> SecretFile]
    BY <1>1, <1>2, Values, Files DEF SecretWriteFails, TypeOK, Beats, Goto
  <2>2. fresh' \in [Procs -> Secrets \cup {None}]
    BY <1>1, <1>2, Values, Files DEF SecretWriteFails, TypeOK, Beats, Goto
  <2> QED
    BY <1>1, <1>2, <2>1, <2>2 DEF SecretWriteFails, TypeOK, CloseListener, StaysQuiet
<1>4. FileSafe'
  BY <1>1, <1>2 DEF SecretWriteFails, FileSafe
<1>5. ASSUME NEW q \in Procs, q # p PROVE Orderly(q)'
  <2>1. Same(q)
    BY <1>1, <1>2, <1>5 DEF SecretWriteFails, TypeOK, Same
  <2> QED
    BY <1>5, <2>1, Undisturbed DEF IInv, SecretWriteFails
<1>6. Orderly(p)'
  <2>1. Rotation(p)'
    BY <1>1, <1>2, Values DEF SecretWriteFails, TypeOK, Orderly, Rotation, Rotating
  <2>2. OwnFile(p)'
    BY <1>1, <1>2, Values DEF SecretWriteFails, TypeOK, Orderly, OwnFile
  <2>3. OneWriter(p)'
    BY <1>1, <1>2, Values DEF SecretWriteFails, TypeOK, Orderly, OneWriter, Beating, Beats
  <2>4. TrueManifest(p)'
    BY <1>1, <1>2, Values DEF SecretWriteFails, TypeOK, Orderly, TrueManifest, Beating, Unpublished,
       OneWriter, Threads
  <2> QED
    BY <2>1, <2>2, <2>3, <2>4 DEF Orderly
<1> QED
  BY <1>3, <1>4, <1>5, <1>6 DEF IInv

\* The flushed temporary becomes the file.
LEMMA RenameSecretKeeps ==
  ASSUME IInv, NEW p \in Procs, RenameSecret(p)
  PROVE  IInv'
<1> USE DEF secrets, adverts
<1>1. TypeOK /\ FileSafe /\ Orderly(p)
  BY DEF IInv
<1>0. \/ pc[p] = "starting rename" /\ pc' = [pc EXCEPT ![p] = "bind"]
      \/ pc[p] = "reset rename" /\ pc' = [pc EXCEPT ![p] = "quiesce"]
  BY DEF RenameSecret, Goto
<1>2. /\ \/ pc[p] = "starting rename" /\ pc'[p] = "bind"
         \/ pc[p] = "reset rename" /\ pc'[p] = "quiesce"
      /\ pc' \in [Procs -> Places] /\ \A q \in Procs : q # p => pc'[q] = pc[q]
  BY <1>0, <1>1, PlaceNames, Goes
<1>a. secretFile' = Flushed(fresh[p]) /\ fresh[p] \in Secrets
  BY <1>1, <1>2 DEF RenameSecret, Orderly, Rotation, Rotating
<1>b. \/ pc'[p] = "bind" /\ memory'[p] = fresh[p]
      \/ pc'[p] = "quiesce" /\ fresh' = fresh
  BY <1>1, <1>2 DEF RenameSecret, Goto, TypeOK
<1>3. TypeOK'
  <2>1. memory' \in [Procs -> Secrets \cup {None}]
    BY <1>1, <1>2, Values, Files DEF RenameSecret, TypeOK, Beats, Goto
  <2>2. fresh' \in [Procs -> Secrets \cup {None}]
    BY <1>1, <1>2, Values, Files DEF RenameSecret, TypeOK, Beats, Goto
  <2>3. secretFile' \in SecretFile
    BY <1>1, <1>2, Values, Files DEF RenameSecret, TypeOK, Beats, Goto
  <2>4. tmp' \in [Procs -> SecretFile]
    BY <1>1, <1>2, Values, Files DEF RenameSecret, TypeOK, Beats, Goto
  <2>5. writer' \in Procs \cup {None}
    BY <1>1, <1>2, Values, Files DEF RenameSecret, TypeOK, Beats, Goto
  <2> QED
    BY <1>1, <1>2, <2>1, <2>2, <2>3, <2>4, <2>5 DEF RenameSecret, TypeOK, CloseListener, StaysQuiet
<1>4. FileSafe'
  BY <1>a DEF FileSafe, Flushed
<1>5. ASSUME NEW q \in Procs, q # p PROVE Orderly(q)'
  <2>1. Same(q)
    BY <1>1, <1>2, <1>5 DEF RenameSecret, TypeOK, Same
  <2> QED
    BY <1>5, <2>1, Undisturbed DEF IInv, RenameSecret
<1>6. Orderly(p)'
  <2>1. Rotation(p)'
    BY <1>a, <1>b DEF Rotation, Rotating
  <2>2. OwnFile(p)'
    BY <1>a, <1>b DEF OwnFile, Flushed
  <2>3. OneWriter(p)'
    BY <1>1, <1>2, Values DEF RenameSecret, TypeOK, Orderly, OneWriter, Beating, Beats
  <2>4. TrueManifest(p)'
    BY <1>1, <1>2, Values DEF RenameSecret, TypeOK, Orderly, TrueManifest, Beating, Unpublished,
       OneWriter, Threads
  <2> QED
    BY <2>1, <2>2, <2>3, <2>4 DEF Orderly
<1> QED
  BY <1>3, <1>4, <1>5, <1>6 DEF IInv

\* A listener opens before the first manifest.
LEMMA BindKeeps ==
  ASSUME IInv, NEW p \in Procs, Bind(p)
  PROVE  IInv'
<1> USE DEF secrets, adverts
<1>1. TypeOK /\ FileSafe /\ Orderly(p)
  BY DEF IInv
<1>0. \/ pc[p] = "bind" /\ pc' = [pc EXCEPT ![p] = "up"]
      \/ pc[p] = "bind" /\ pc' = [pc EXCEPT ![p] = "stopped"]
  BY DEF Bind, Goto
<1>2. /\ \/ pc[p] = "bind" /\ pc'[p] = "up"
         \/ pc[p] = "bind" /\ pc'[p] = "stopped"
      /\ pc' \in [Procs -> Places] /\ \A q \in Procs : q # p => pc'[q] = pc[q]
  BY <1>0, <1>1, PlaceNames, Goes
<1>a. beat[p] = "off" /\ writing[p]["heartbeat"] = None /\ writing[p]["ui"] = None
  BY <1>1, <1>2 DEF Orderly, OneWriter, Beating, TypeOK, Beats
<1>b. writing' = writing /\ (beat'[p] = "on" => pc'[p] = "up") /\ beat'[p] # "told to stop"
  <2>1. \/ pc' = [pc EXCEPT ![p] = "up"] /\ beat' = [beat EXCEPT ![p] = "on"]
        \/ beat' = beat
    BY DEF Bind, Goto
  <2>2. writing' = writing
    BY DEF Bind
  <2>3. pc \in [Procs -> Places] /\ beat \in [Procs -> Beats]
    BY <1>1 DEF TypeOK
  <2> QED
    BY <1>a, <2>1, <2>2, <2>3
<1>3. TypeOK'
  <2>1. port' \in [Procs -> Ports \cup {None}]
    BY <1>1 DEF Bind, TypeOK
  <2>2. beat' \in [Procs -> Beats]
    BY <1>1, <1>2, Values, Files DEF Bind, TypeOK, Beats, Goto
  <2> QED
    BY <1>1, <1>2, <2>1, <2>2 DEF Bind, TypeOK
<1>4. FileSafe'
  BY <1>1 DEF Bind, FileSafe
<1>5. ASSUME NEW q \in Procs, q # p PROVE Orderly(q)'
  <2>1. Same(q)
    BY <1>1, <1>2, <1>5 DEF Bind, TypeOK, Same
  <2> QED
    BY <2>1, Undisturbed DEF IInv, Bind
<1>6. Orderly(p)'
  <2>1. Rotation(p)'
    BY <1>1, <1>2, Values DEF Bind, TypeOK, Orderly, Rotation, Rotating
  <2>2. OwnFile(p)'
    BY <1>1, <1>2, Values DEF Bind, TypeOK, Orderly, OwnFile
  <2>3. OneWriter(p)'
    BY <1>a, <1>b DEF OneWriter, Beating
  <2>4. TrueManifest(p)'
    BY <1>1, <1>2, Values DEF Bind, TypeOK, Orderly, TrueManifest, Beating, Unpublished, OneWriter,
       Threads
  <2> QED
    BY <2>1, <2>2, <2>3, <2>4 DEF Orderly
<1> QED
  BY <1>3, <1>4, <1>5, <1>6 DEF IInv

\* The heartbeat puts the open port into its temporary.
LEMMA HeartbeatBeginsKeeps ==
  ASSUME IInv, NEW p \in Procs, HeartbeatBegins(p)
  PROVE  IInv'
<1> USE DEF secrets, adverts
<1>1. TypeOK /\ FileSafe /\ Orderly(p)
  BY DEF IInv
<1>2. pc' \in [Procs -> Places] /\ \A q \in Procs : pc'[q] = pc[q]
  BY <1>1 DEF HeartbeatBegins, TypeOK
<1>a. BeginManifest(p, "heartbeat") /\ beat[p] = "on" /\ UNCHANGED <<beat, port>>
  BY DEF HeartbeatBegins
<1>b. /\ writing' \in [Procs -> [Threads -> Ports \cup {None}]]
      /\ writing'[p]["heartbeat"] = port[p] /\ writing'[p]["ui"] = writing[p]["ui"]
      /\ \A q \in Procs : q # p => writing'[q] = writing[q]
  BY <1>1, <1>a, Begins, ThreadNames
<1>3. TypeOK'
  <2>1. writing' \in [Procs -> [Threads -> Ports \cup {None}]]
    BY <1>b
  <2> QED
    BY <1>1, <2>1 DEF HeartbeatBegins, TypeOK
<1>4. FileSafe'
  BY <1>1 DEF HeartbeatBegins, FileSafe
<1>5. ASSUME NEW q \in Procs, q # p PROVE Orderly(q)'
  <2>1. Same(q)
    BY <1>5, <1>b DEF HeartbeatBegins, Same
  <2> QED
    BY <2>1, Undisturbed DEF IInv, HeartbeatBegins
<1>6. Orderly(p)'
  <2>1. Rotation(p)'
    BY <1>1, <1>2, Values DEF HeartbeatBegins, BeginManifest, Alive, TypeOK, Orderly, Rotation, Rotating
  <2>2. OwnFile(p)'
    BY <1>1, <1>2, Values DEF HeartbeatBegins, BeginManifest, Alive, TypeOK, Orderly, OwnFile
  <2>3. OneWriter(p)'
    BY <1>1, <1>2, <1>a, <1>b DEF Orderly, OneWriter
  <2>4. TrueManifest(p)'
    BY <1>1, <1>2, Values DEF HeartbeatBegins, BeginManifest, Alive, TypeOK, Orderly, TrueManifest,
       Beating, Unpublished, OneWriter, Threads
  <2> QED
    BY <2>1, <2>2, <2>3, <2>4 DEF Orderly
<1> QED
  BY <1>3, <1>4, <1>5, <1>6 DEF IInv

\* Nobody else is writing when the heartbeat renames.
LEMMA HeartbeatPublishesKeeps ==
  ASSUME IInv, NEW p \in Procs, HeartbeatPublishes(p)
  PROVE  IInv'
<1> USE DEF secrets, adverts
<1>1. TypeOK /\ FileSafe /\ Orderly(p)
  BY DEF IInv
<1>2. pc' \in [Procs -> Places] /\ \A q \in Procs : pc'[q] = pc[q]
  BY <1>1 DEF HeartbeatPublishes, TypeOK
<1>a. FinishManifest(p, "heartbeat") /\ port' = port
  BY DEF HeartbeatPublishes
<1>b. writing[p]["ui"] = None
  BY <1>1, <1>2 DEF HeartbeatPublishes, Orderly, OneWriter, TypeOK, Beats, Beating
<1>c. /\ writing' \in [Procs -> [Threads -> Ports \cup {None}]]
      /\ writing'[p]["ui"] = None /\ writing'[p]["heartbeat"] = None
      /\ writing[p]["heartbeat"] \in Ports /\ manifest' = [manifest EXCEPT ![p] = writing[p]["heartbeat"]]
      /\ \A q \in Procs : q # p => writing'[q] = writing[q]
  BY <1>1, <1>a, <1>b, Finishes, ThreadNames
<1>d. writing[p]["heartbeat"] = port[p]
  BY <1>1, <1>c, Values DEF Orderly, OneWriter
<1>e. manifest'[p] = port[p] /\ port[p] \in Ports
  BY <1>1, <1>c, <1>d DEF TypeOK
<1>3. TypeOK'
  <2>1. writing' \in [Procs -> [Threads -> Ports \cup {None}]]
    BY <1>c
  <2>2. manifest' \in [Procs -> Ports \cup {None, "torn"}]
    BY <1>1, <1>c DEF TypeOK
  <2> QED
    BY <1>1, <2>1, <2>2 DEF HeartbeatPublishes, TypeOK
<1>4. FileSafe'
  BY <1>1 DEF HeartbeatPublishes, FileSafe
<1>5. ASSUME NEW q \in Procs, q # p PROVE Orderly(q)'
  <2>1. Same(q)
    BY <1>5, <1>c DEF HeartbeatPublishes, Same
  <2> QED
    BY <2>1, Undisturbed DEF IInv, HeartbeatPublishes
<1>6. Orderly(p)'
  <2>1. Rotation(p)'
    BY <1>1, <1>2, Values DEF HeartbeatPublishes, FinishManifest, Alive, TypeOK, Orderly, Rotation,
       Rotating
  <2>2. OwnFile(p)'
    BY <1>1, <1>2, Values DEF HeartbeatPublishes, FinishManifest, Alive, TypeOK, Orderly, OwnFile
  <2>3. OneWriter(p)'
    BY <1>1, <1>2, <1>c DEF HeartbeatPublishes, TypeOK, Orderly, OneWriter, Beating
  <2>4. TrueManifest(p)'
    BY <1>1, <1>2, <1>a, <1>e, Values DEF Orderly, TrueManifest, OneWriter, Beating, Unpublished,
       TypeOK, Beats, HeartbeatPublishes
  <2> QED
    BY <2>1, <2>2, <2>3, <2>4 DEF Orderly
<1> QED
  BY <1>3, <1>4, <1>5, <1>6 DEF IInv

\* The heartbeat has written nothing when it exits.
LEMMA HeartbeatExitsKeeps ==
  ASSUME IInv, NEW p \in Procs, HeartbeatExits(p)
  PROVE  IInv'
<1> USE DEF secrets, adverts
<1>1. TypeOK /\ FileSafe /\ Orderly(p)
  BY DEF IInv
<1>2. pc' \in [Procs -> Places] /\ \A q \in Procs : pc'[q] = pc[q]
  BY <1>1 DEF HeartbeatExits, TypeOK
<1>3. TypeOK'
  <2>1. beat' \in [Procs -> Beats]
    BY <1>1, <1>2, Values, Files DEF HeartbeatExits, Alive, TypeOK, Beats, Goto
  <2> QED
    BY <1>1, <1>2, <2>1 DEF HeartbeatExits, TypeOK, CloseListener, StaysQuiet
<1>4. FileSafe'
  BY <1>1, <1>2 DEF HeartbeatExits, Alive, FileSafe
<1>5. ASSUME NEW q \in Procs, q # p PROVE Orderly(q)'
  <2>1. Same(q)
    BY <1>1, <1>2, <1>5 DEF HeartbeatExits, Alive, TypeOK, Same
  <2> QED
    BY <1>5, <2>1, Undisturbed DEF IInv, HeartbeatExits
<1>6. Orderly(p)'
  <2>1. Rotation(p)'
    BY <1>1, <1>2, Values DEF HeartbeatExits, Alive, TypeOK, Orderly, Rotation, Rotating
  <2>2. OwnFile(p)'
    BY <1>1, <1>2, Values DEF HeartbeatExits, Alive, TypeOK, Orderly, OwnFile
  <2>3. OneWriter(p)'
    BY <1>1, <1>2, Values DEF HeartbeatExits, Alive, TypeOK, Orderly, OneWriter, Beating, Beats
  <2>4. TrueManifest(p)'
    BY <1>1, <1>2, Values DEF HeartbeatExits, Alive, TypeOK, Orderly, TrueManifest, Beating,
       Unpublished, OneWriter, Threads
  <2> QED
    BY <2>1, <2>2, <2>3, <2>4 DEF Orderly
<1> QED
  BY <1>3, <1>4, <1>5, <1>6 DEF IInv

\* The heartbeat is told to stop and may still publish.
LEMMA QuiesceKeeps ==
  ASSUME IInv, NEW p \in Procs, Quiesce(p)
  PROVE  IInv'
<1> USE DEF secrets, adverts
<1>1. TypeOK /\ FileSafe /\ Orderly(p)
  BY DEF IInv
<1>0. pc[p] = "quiesce" /\ pc' = [pc EXCEPT ![p] = "close"]
  BY DEF Quiesce, Goto
<1>2. /\ pc[p] = "quiesce" /\ pc'[p] = "close"
      /\ pc' \in [Procs -> Places] /\ \A q \in Procs : q # p => pc'[q] = pc[q]
  BY <1>0, <1>1, PlaceNames, Goes
<1>3. TypeOK'
  <2>1. beat' \in [Procs -> Beats]
    BY <1>1, <1>2, Values, Files DEF Quiesce, StopHeartbeat, TypeOK, Beats, Goto
  <2> QED
    BY <1>1, <1>2, <2>1 DEF Quiesce, TypeOK
<1>4. FileSafe'
  BY <1>1 DEF Quiesce, FileSafe
<1>5. ASSUME NEW q \in Procs, q # p PROVE Orderly(q)'
  <2>1. Same(q)
    BY <1>1, <1>2, <1>5 DEF Quiesce, StopHeartbeat, TypeOK, Same
  <2> QED
    BY <2>1, Undisturbed DEF IInv, Quiesce
<1>6. Orderly(p)'
  <2>1. Rotation(p)'
    BY <1>1, <1>2 DEF Quiesce, Orderly, Rotation, Rotating
  <2>2. OwnFile(p)'
    BY <1>1, <1>2 DEF Quiesce, Orderly, OwnFile
  <2>3. OneWriter(p)'
    BY <1>1, <1>2, Values DEF Quiesce, StopHeartbeat, TypeOK, Orderly, OneWriter, Beating, Beats
  <2>4. TrueManifest(p)'
    BY <1>1, <1>2, Values DEF Quiesce, StopHeartbeat, TypeOK, Orderly, TrueManifest, Beating,
       Unpublished, OneWriter, Threads
  <2> QED
    BY <2>1, <2>2, <2>3, <2>4 DEF Orderly
<1> QED
  BY <1>3, <1>4, <1>5, <1>6 DEF IInv

\* The listener goes after the heartbeat.
LEMMA CloseKeeps ==
  ASSUME IInv, NEW p \in Procs, Close(p)
  PROVE  IInv'
<1> USE DEF secrets, adverts
<1>1. TypeOK /\ FileSafe /\ Orderly(p)
  BY DEF IInv
<1>0. pc[p] = "close" /\ pc' = [pc EXCEPT ![p] = "rebind"]
  BY DEF Close, Goto
<1>2. /\ pc[p] = "close" /\ pc'[p] = "rebind"
      /\ pc' \in [Procs -> Places] /\ \A q \in Procs : q # p => pc'[q] = pc[q]
  BY <1>0, <1>1, PlaceNames, Goes
<1>3. TypeOK'
  <2>1. port' \in [Procs -> Ports \cup {None}]
    BY <1>1 DEF Close, CloseListener, HeartbeatJoined, TypeOK
  <2>2. client' \in Clients
    BY <1>1, IdleClient DEF Close, CloseListener, TypeOK
  <2> QED
    BY <1>1, <1>2, <2>1, <2>2 DEF Close, TypeOK
<1>4. FileSafe'
  BY <1>1 DEF Close, FileSafe
<1>5. ASSUME NEW q \in Procs, q # p PROVE Orderly(q)'
  <2>1. Same(q)
    BY <1>2, <1>5 DEF Close, CloseListener, Same
  <2> QED
    BY <2>1, Undisturbed DEF IInv, Close
<1>6. Orderly(p)'
  <2>1. Rotation(p)'
    BY <1>1, <1>2 DEF Close, Orderly, Rotation, Rotating
  <2>2. OwnFile(p)'
    BY <1>1, <1>2 DEF Close, Orderly, OwnFile
  <2>3. OneWriter(p)'
    BY <1>1, <1>2 DEF Close, CloseListener, HeartbeatJoined, TypeOK, Orderly, OneWriter, Beating
  <2>4. TrueManifest(p)'
    BY <1>1, <1>2 DEF Close, Orderly, TrueManifest, Beating, Unpublished
  <2> QED
    BY <2>1, <2>2, <2>3, <2>4 DEF Orderly
<1> QED
  BY <1>3, <1>4, <1>5, <1>6 DEF IInv

\* The new listener has the secret that was written.
LEMMA RebindKeeps ==
  ASSUME IInv, NEW p \in Procs, Rebind(p)
  PROVE  IInv'
<1> USE DEF secrets, adverts
<1>1. TypeOK /\ FileSafe /\ Orderly(p)
  BY DEF IInv
<1>0. \/ pc[p] = "rebind" /\ pc' = [pc EXCEPT ![p] = "publish"]
      \/ pc[p] = "rebind" /\ pc' = [pc EXCEPT ![p] = "withdrawn"]
  BY DEF Rebind, Goto
<1>2. /\ \/ pc[p] = "rebind" /\ pc'[p] = "publish"
         \/ pc[p] = "rebind" /\ pc'[p] = "withdrawn"
      /\ pc' \in [Procs -> Places] /\ \A q \in Procs : q # p => pc'[q] = pc[q]
  BY <1>0, <1>1, PlaceNames, Goes
<1>a. (manifest'[p] = manifest[p] /\ pc'[p] = "publish") \/ (manifest'[p] = None /\ pc'[p] = "withdrawn")
  <2>1. \/ pc' = [pc EXCEPT ![p] = "publish"] /\ manifest' = manifest
        \/ pc' = [pc EXCEPT ![p] = "withdrawn"] /\ manifest' = [manifest EXCEPT ![p] = None]
    BY DEF Rebind, Goto
  <2>2. pc \in [Procs -> Places] /\ manifest \in [Procs -> Ports \cup {None, "torn"}]
    BY <1>1 DEF TypeOK
  <2> QED
    BY <2>1, <2>2
<1>3. TypeOK'
  <2>1. port' \in [Procs -> Ports \cup {None}]
    BY <1>1, Values DEF Rebind, Adopted, StaysQuiet, TypeOK
  <2>2. memory' \in [Procs -> Secrets \cup {None}]
    BY <1>1 DEF Rebind, Adopted, StaysQuiet, TypeOK
  <2>3. fresh' \in [Procs -> Secrets \cup {None}]
    BY <1>1 DEF Rebind, Adopted, StaysQuiet, TypeOK
  <2>4. manifest' \in [Procs -> Ports \cup {None, "torn"}]
    BY <1>1 DEF Rebind, Adopted, StaysQuiet, TypeOK
  <2> QED
    BY <1>1, <1>2, <2>2, <2>4 DEF Rebind, TypeOK, StaysQuiet
<1>4. FileSafe'
  BY <1>1 DEF Rebind, FileSafe
<1>5. ASSUME NEW q \in Procs, q # p PROVE Orderly(q)'
  <2>1. Same(q)
    BY <1>1, <1>2, <1>5 DEF Rebind, StaysQuiet, TypeOK, Same
  <2> QED
    BY <2>1, Undisturbed DEF IInv, Rebind
<1>6. Orderly(p)'
  <2>1. Rotation(p)'
    BY <1>1, <1>2, Values DEF Rebind, Adopted, StaysQuiet, TypeOK, Orderly, Rotation, Rotating
  <2>2. OwnFile(p)'
    BY <1>1, <1>2, Values DEF Rebind, Adopted, StaysQuiet, TypeOK, Orderly, OwnFile
  <2>3. OneWriter(p)'
    BY <1>1, <1>2, Values DEF Rebind, Adopted, StaysQuiet, TypeOK, Orderly, OneWriter, Beating, Beats
  <2>4. TrueManifest(p)'
    BY <1>1, <1>a, Values DEF Orderly, TrueManifest, Beating, Unpublished
  <2> QED
    BY <2>1, <2>2, <2>3, <2>4 DEF Orderly
<1> QED
  BY <1>3, <1>4, <1>5, <1>6 DEF IInv

\* The UI thread writes while there is no heartbeat.
LEMMA PublishBeginsKeeps ==
  ASSUME IInv, NEW p \in Procs, PublishBegins(p)
  PROVE  IInv'
<1> USE DEF secrets, adverts
<1>1. TypeOK /\ FileSafe /\ Orderly(p)
  BY DEF IInv
<1>0. pc[p] = "publish" /\ pc' = [pc EXCEPT ![p] = "publishing"]
  BY DEF PublishBegins, Goto
<1>2. /\ pc[p] = "publish" /\ pc'[p] = "publishing"
      /\ pc' \in [Procs -> Places] /\ \A q \in Procs : q # p => pc'[q] = pc[q]
  BY <1>0, <1>1, PlaceNames, Goes
<1>a. BeginManifest(p, "ui") /\ UNCHANGED <<beat, port>>
  BY DEF PublishBegins
<1>b. /\ writing' \in [Procs -> [Threads -> Ports \cup {None}]]
      /\ writing'[p]["ui"] = port[p] /\ writing'[p]["heartbeat"] = writing[p]["heartbeat"]
      /\ \A q \in Procs : q # p => writing'[q] = writing[q]
  BY <1>1, <1>a, Begins, ThreadNames
<1>3. TypeOK'
  <2>1. writing' \in [Procs -> [Threads -> Ports \cup {None}]]
    BY <1>b
  <2> QED
    BY <1>1, <1>2, <2>1 DEF PublishBegins, TypeOK
<1>4. FileSafe'
  BY <1>1 DEF PublishBegins, FileSafe
<1>5. ASSUME NEW q \in Procs, q # p PROVE Orderly(q)'
  <2>1. Same(q)
    BY <1>2, <1>5, <1>b DEF PublishBegins, Same
  <2> QED
    BY <2>1, Undisturbed DEF IInv, PublishBegins
<1>6. Orderly(p)'
  <2>1. Rotation(p)'
    BY <1>2 DEF Rotation, Rotating
  <2>2. OwnFile(p)'
    BY <1>1, <1>2 DEF PublishBegins, Orderly, OwnFile
  <2>3. OneWriter(p)'
    BY <1>1, <1>2, <1>a, <1>b DEF Orderly, OneWriter, Beating
  <2>4. TrueManifest(p)'
    BY <1>1, <1>2 DEF PublishBegins, BeginManifest, TypeOK, Orderly, TrueManifest, Beating,
       Unpublished
  <2> QED
    BY <2>1, <2>2, <2>3, <2>4 DEF Orderly
<1> QED
  BY <1>3, <1>4, <1>5, <1>6 DEF IInv

\* The new port is published before the heartbeat resumes.
LEMMA PublishKeeps ==
  ASSUME IInv, NEW p \in Procs, Publish(p)
  PROVE  IInv'
<1> USE DEF secrets, adverts
<1>1. TypeOK /\ FileSafe /\ Orderly(p)
  BY DEF IInv
<1>0. pc[p] = "publishing" /\ pc' = [pc EXCEPT ![p] = "up"]
  BY DEF Publish, Goto
<1>2. /\ pc[p] = "publishing" /\ pc'[p] = "up"
      /\ pc' \in [Procs -> Places] /\ \A q \in Procs : q # p => pc'[q] = pc[q]
  BY <1>0, <1>1, PlaceNames, Goes
<1>a. FinishManifest(p, "ui") /\ port' = port
  BY DEF Publish
<1>b. writing[p]["heartbeat"] = None
  BY <1>1, <1>2 DEF Orderly, OneWriter, TypeOK, Beats, Beating
<1>c. /\ writing' \in [Procs -> [Threads -> Ports \cup {None}]]
      /\ writing'[p]["ui"] = None /\ writing'[p]["heartbeat"] = None
      /\ writing[p]["ui"] \in Ports /\ manifest' = [manifest EXCEPT ![p] = writing[p]["ui"]]
      /\ \A q \in Procs : q # p => writing'[q] = writing[q]
  BY <1>1, <1>a, <1>b, Finishes, ThreadNames
<1>d. writing[p]["ui"] = port[p]
  BY <1>1, <1>c, Values DEF Orderly, OneWriter
<1>e. manifest'[p] = port[p] /\ port[p] \in Ports
  BY <1>1, <1>c, <1>d DEF TypeOK
<1>3. TypeOK'
  <2>1. writing' \in [Procs -> [Threads -> Ports \cup {None}]]
    BY <1>c
  <2>2. manifest' \in [Procs -> Ports \cup {None, "torn"}]
    BY <1>1, <1>c DEF TypeOK
  <2>3. beat' \in [Procs -> Beats]
    BY <1>1, <1>2, Values, Files DEF Publish, FinishManifest, TypeOK, Beats, Goto
  <2> QED
    BY <1>1, <1>2, <2>1, <2>2, <2>3 DEF Publish, TypeOK
<1>4. FileSafe'
  BY <1>1 DEF Publish, FileSafe
<1>5. ASSUME NEW q \in Procs, q # p PROVE Orderly(q)'
  <2>1. Same(q)
    BY <1>2, <1>5, <1>c DEF Publish, Same
  <2> QED
    BY <2>1, Undisturbed DEF IInv, Publish
<1>6. Orderly(p)'
  <2>1. Rotation(p)'
    BY <1>2 DEF Rotation, Rotating
  <2>2. OwnFile(p)'
    BY <1>1, <1>2 DEF Publish, Orderly, OwnFile
  <2>3. OneWriter(p)'
    BY <1>1, <1>2, <1>c DEF Publish, TypeOK, OneWriter, Beating
  <2>4. TrueManifest(p)'
    BY <1>2, <1>a, <1>e, Values DEF TrueManifest, Unpublished
  <2> QED
    BY <2>1, <2>2, <2>3, <2>4 DEF Orderly
<1> QED
  BY <1>3, <1>4, <1>5, <1>6 DEF IInv

\* A stop begins with the heartbeat.
LEMMA StopKeeps ==
  ASSUME IInv, NEW p \in Procs, Stop(p)
  PROVE  IInv'
<1> USE DEF secrets, adverts
<1>1. TypeOK /\ FileSafe /\ Orderly(p)
  BY DEF IInv
<1>0. \/ pc[p] = "up" /\ pc' = [pc EXCEPT ![p] = "stopping"]
      \/ pc[p] = "withdrawn" /\ pc' = [pc EXCEPT ![p] = "stopping"]
  BY DEF Stop, Goto
<1>2. /\ \/ pc[p] = "up" /\ pc'[p] = "stopping"
         \/ pc[p] = "withdrawn" /\ pc'[p] = "stopping"
      /\ pc' \in [Procs -> Places] /\ \A q \in Procs : q # p => pc'[q] = pc[q]
  BY <1>0, <1>1, PlaceNames, Goes
<1>3. TypeOK'
  <2>1. beat' \in [Procs -> Beats]
    BY <1>1, <1>2, Values, Files DEF Stop, StopHeartbeat, TypeOK, Beats, Goto
  <2> QED
    BY <1>1, <1>2, <2>1 DEF Stop, TypeOK
<1>4. FileSafe'
  BY <1>1 DEF Stop, FileSafe
<1>5. ASSUME NEW q \in Procs, q # p PROVE Orderly(q)'
  <2>1. Same(q)
    BY <1>1, <1>2, <1>5 DEF Stop, StopHeartbeat, TypeOK, Same
  <2> QED
    BY <2>1, Undisturbed DEF IInv, Stop
<1>6. Orderly(p)'
  <2>1. Rotation(p)'
    BY <1>1, <1>2, Values DEF Stop, StopHeartbeat, TypeOK, Orderly, Rotation, Rotating
  <2>2. OwnFile(p)'
    BY <1>1, <1>2, Values DEF Stop, StopHeartbeat, TypeOK, Orderly, OwnFile
  <2>3. OneWriter(p)'
    BY <1>1, <1>2, Values DEF Stop, StopHeartbeat, TypeOK, Orderly, OneWriter, Beating, Beats
  <2>4. TrueManifest(p)'
    BY <1>1, <1>2, Values DEF Stop, StopHeartbeat, TypeOK, Orderly, TrueManifest, Beating,
       Unpublished, OneWriter, Threads
  <2> QED
    BY <2>1, <2>2, <2>3, <2>4 DEF Orderly
<1> QED
  BY <1>3, <1>4, <1>5, <1>6 DEF IInv

\* The manifest is removed after its last writer.
LEMMA StopFinishesKeeps ==
  ASSUME IInv, NEW p \in Procs, StopFinishes(p)
  PROVE  IInv'
<1> USE DEF secrets, adverts
<1>1. TypeOK /\ FileSafe /\ Orderly(p)
  BY DEF IInv
<1>0. pc[p] = "stopping" /\ pc' = [pc EXCEPT ![p] = "stopped"]
  BY DEF StopFinishes, Goto
<1>2. /\ pc[p] = "stopping" /\ pc'[p] = "stopped"
      /\ pc' \in [Procs -> Places] /\ \A q \in Procs : q # p => pc'[q] = pc[q]
  BY <1>0, <1>1, PlaceNames, Goes
<1>3. TypeOK'
  <2>1. port' \in [Procs -> Ports \cup {None}]
    BY <1>1 DEF StopFinishes, CloseListener, HeartbeatJoined, TypeOK
  <2>2. client' \in Clients
    BY <1>1, IdleClient DEF StopFinishes, CloseListener, TypeOK
  <2>3. manifest' \in [Procs -> Ports \cup {None, "torn"}]
    BY <1>1 DEF StopFinishes, CloseListener, HeartbeatJoined, TypeOK
  <2>4. memory' \in [Procs -> Secrets \cup {None}]
    BY <1>1 DEF StopFinishes, CloseListener, HeartbeatJoined, TypeOK
  <2> QED
    BY <1>1, <1>2, <2>1, <2>2 DEF StopFinishes, TypeOK
<1>4. FileSafe'
  BY <1>1 DEF StopFinishes, FileSafe
<1>5. ASSUME NEW q \in Procs, q # p PROVE Orderly(q)'
  <2>1. Same(q)
    BY <1>2, <1>5 DEF StopFinishes, CloseListener, Same
  <2> QED
    BY <2>1, Undisturbed DEF IInv, StopFinishes
<1>6. Orderly(p)'
  <2>1. Rotation(p)'
    BY <1>2 DEF Rotation, Rotating
  <2>2. OwnFile(p)'
    BY <1>2 DEF OwnFile
  <2>3. OneWriter(p)'
    BY <1>1, <1>2 DEF StopFinishes, CloseListener, HeartbeatJoined, TypeOK, Orderly, OneWriter,
       Beating
  <2>4. TrueManifest(p)'
    BY <1>1, Values DEF StopFinishes, TypeOK, TrueManifest
  <2> QED
    BY <2>1, <2>2, <2>3, <2>4 DEF Orderly
<1> QED
  BY <1>3, <1>4, <1>5, <1>6 DEF IInv

\* A crashed process has neither threads nor a listener.
LEMMA CrashKeeps ==
  ASSUME IInv, NEW p \in Procs, Crash(p)
  PROVE  IInv'
<1> USE DEF secrets, adverts
<1>1. TypeOK /\ FileSafe /\ Orderly(p)
  BY DEF IInv
<1>2. /\ pc'[p] = "crashed"
      /\ pc' \in [Procs -> Places] /\ \A q \in Procs : q # p => pc'[q] = pc[q]
  BY <1>1, PlaceNames DEF Crash, TypeOK
<1>a. beat'[p] = "off" /\ writing'[p]["ui"] = None /\ writing'[p]["heartbeat"] = None
  BY <1>1, ThreadNames DEF Crash, TypeOK
<1>3. TypeOK'
  <2>1. port' \in [Procs -> Ports \cup {None}]
    BY <1>1 DEF Crash, CloseListener, Alive, TypeOK
  <2>2. client' \in Clients
    BY <1>1, IdleClient DEF Crash, CloseListener, TypeOK
  <2>3. beat' \in [Procs -> Beats]
    BY <1>1, <1>2, Values, Files DEF Crash, CloseListener, Alive, TypeOK, Beats, Goto
  <2>4. writing' \in [Procs -> [Threads -> Ports \cup {None}]]
    BY <1>1 DEF Crash, CloseListener, Alive, TypeOK
  <2> QED
    BY <1>1, <1>2, <2>1, <2>2, <2>3 DEF Crash, TypeOK
<1>4. FileSafe'
  BY <1>1 DEF Crash, FileSafe
<1>5. ASSUME NEW q \in Procs, q # p PROVE Orderly(q)'
  <2>1. Same(q)
    BY <1>5 DEF Crash, CloseListener, Same
  <2> QED
    BY <2>1, Undisturbed DEF IInv, Crash
<1>6. Orderly(p)'
  <2>1. Rotation(p)'
    BY <1>2 DEF Crash, CloseListener, Alive, TypeOK, Rotation, Rotating
  <2>2. OwnFile(p)'
    BY <1>2 DEF Crash, CloseListener, Alive, TypeOK, OwnFile
  <2>3. OneWriter(p)'
    BY <1>a DEF OneWriter
  <2>4. TrueManifest(p)'
    BY <1>1, <1>2, Values DEF Crash, CloseListener, Alive, TypeOK, Orderly, TrueManifest, Beating,
       Unpublished, OneWriter, Threads
  <2> QED
    BY <2>1, <2>2, <2>3, <2>4 DEF Orderly
<1> QED
  BY <1>3, <1>4, <1>5, <1>6 DEF IInv

\* The server that looks for a process changes nothing of it.
LEMMA ClientKeeps ==
  ASSUME IInv, ClientStep
  PROVE  IInv'
<1> USE DEF secrets, adverts
<1>1. TypeOK /\ client \in Clients
  BY DEF IInv, TypeOK
<1>2. UNCHANGED <<pc, secrets, adverts>>
  BY DEF ClientStep, Scan, LoadSecret, Connect, Authenticate
<1>3. client' \in Clients
  <2>1. ASSUME NEW p \in Procs, Scan(p) PROVE client' \in Clients
    <3>1. manifest[p] \in Ports
      BY <2>1 DEF Scan
    <3>2. client' = [phase |-> "scanned", target |-> p, port |-> manifest[p], secret |-> None, peer |-> None]
      BY <2>1 DEF Scan, Idle
    <3> QED
      BY <3>1, <3>2 DEF Clients
  <2>2. CASE LoadSecret
    <3>1. CASE Readable(secretFile)
      <4>1. secretFile.content \in Secrets
        BY <1>1, <3>1, Files DEF TypeOK
      <4>2. client' = [client EXCEPT !.phase = "loaded", !.secret = secretFile.content]
        BY <2>2, <3>1 DEF LoadSecret
      <4> QED
        BY <1>1, <4>1, <4>2 DEF Clients
    <3> QED
      BY <2>2, <3>1, IdleClient DEF LoadSecret
  <2>3. CASE Connect
    <3>1. ASSUME NEW p \in Procs, client' = [client EXCEPT !.phase = "welcomed", !.peer = p] PROVE client' \in Clients
      BY <1>1, <3>1 DEF Clients
    <3> QED
      BY <2>3, <3>1, IdleClient DEF Connect
  <2>4. CASE Authenticate
    <3>1. ASSUME client' = [client EXCEPT !.phase = "selected"] PROVE client' \in Clients
      BY <1>1, <3>1 DEF Clients
    <3> QED
      BY <2>4, <3>1, IdleClient DEF Authenticate
  <2> QED
    BY <2>1, <2>2, <2>3, <2>4 DEF ClientStep
<1>4. TypeOK' /\ FileSafe'
  BY <1>2, <1>3 DEF IInv, TypeOK, FileSafe
<1>5. ASSUME NEW q \in Procs PROVE Orderly(q)'
  BY <1>2, Undisturbed DEF IInv, Same
<1> QED
  BY <1>4, <1>5 DEF IInv

\* Power fails: the file was flushed and survives, and whatever ran has crashed.
LEMMA PowerLossKeeps ==
  ASSUME IInv, PowerLoss
  PROVE  IInv'
<1> USE DEF secrets, adverts
<1>1. TypeOK /\ FileSafe
  BY DEF IInv
<1>2. secretFile' = secretFile
  BY <1>1 DEF PowerLoss, AfterPowerLoss, FileSafe
<1>3. pc' \in [Procs -> Places]
  BY <1>1, PlaceNames DEF PowerLoss, TypeOK
<1>4. tmp' \in [Procs -> SecretFile]
  BY <1>1, Files DEF PowerLoss, TypeOK
<1>5. TypeOK'
  <2>1. port' \in [Procs -> Ports \cup {None}] /\ writing' \in [Procs -> [Threads -> Ports \cup {None}]]
    BY DEF PowerLoss
  <2>2. beat' \in [Procs -> Beats] /\ client' \in Clients
    BY IdleClient DEF PowerLoss, Beats
  <2> QED
    BY <1>1, <1>2, <1>3, <1>4, <2>2 DEF PowerLoss, TypeOK
<1>6. ASSUME NEW q \in Procs PROVE Orderly(q)'
  <2>1. pc'[q] = "crashed" \/ (pc'[q] = pc[q] /\ pc[q] \in {"launched", "stopped"})
    <3>1. pc' = [p \in Procs |-> IF pc[p] \in {"launched", "stopped"} THEN pc[p] ELSE "crashed"]
      BY DEF PowerLoss
    <3> QED
      BY <3>1
  <2>2. beat'[q] = "off" /\ writing'[q]["ui"] = None /\ writing'[q]["heartbeat"] = None
    BY ThreadNames DEF PowerLoss
  <2>3. Rotation(q)' /\ OwnFile(q)'
    BY <2>1 DEF Rotation, OwnFile, Rotating
  <2>4. OneWriter(q)'
    BY <2>2 DEF OneWriter
  <2>5. TrueManifest(q)'
    <3>1. TrueManifest(q) /\ manifest' = manifest
      BY DEF IInv, Orderly, PowerLoss
    <3> QED
      BY <2>1, <3>1 DEF TrueManifest, Beating, Unpublished
  <2> QED
    BY <2>3, <2>4, <2>5 DEF Orderly
<1> QED
  BY <1>2, <1>5, <1>6 DEF IInv, FileSafe

-----------------------------------------------------------------------------
LEMMA Initially == Init => IInv
<1> SUFFICES ASSUME Init PROVE IInv
  OBVIOUS
<1>1. TypeOK
  <2>1. pc \in [Procs -> Places] /\ beat \in [Procs -> Beats] /\ client \in Clients
    BY PlaceNames, IdleClient DEF Init, Beats
  <2>2. tmp \in [Procs -> SecretFile] /\ secretFile \in SecretFile
    BY Files DEF Init
  <2>3. generated \in 0..MaxSecrets
    BY Values DEF Init
  <2> QED
    BY <2>1, <2>2, <2>3 DEF Init, TypeOK
<1>2. FileSafe
  BY DEF Init, FileSafe
<1>3. ASSUME NEW p \in Procs PROVE Orderly(p)
  <2>1. pc[p] = "launched" /\ writer # p /\ beat[p] = "off" /\ manifest[p] = None
        /\ writing[p]["ui"] = None /\ writing[p]["heartbeat"] = None
    BY ThreadNames, Values DEF Init
  <2>2. Rotation(p) /\ OwnFile(p)
    BY <2>1 DEF Rotation, OwnFile, Rotating
  <2>3. OneWriter(p)
    BY <2>1 DEF OneWriter
  <2>4. TrueManifest(p)
    BY <2>1, Values DEF TrueManifest
  <2> QED
    BY <2>2, <2>3, <2>4 DEF Orderly
<1> QED
  BY <1>1, <1>2, <1>3 DEF IInv

LEMMA StutterKeeps ==
  ASSUME IInv, UNCHANGED vars
  PROVE  IInv'
<1> USE DEF vars, secrets, adverts
<1>1. TypeOK' /\ FileSafe'
  BY DEF IInv, TypeOK, FileSafe
<1>2. ASSUME NEW q \in Procs PROVE Orderly(q)'
  BY Undisturbed DEF IInv, Same
<1> QED
  BY <1>1, <1>2 DEF IInv

LEMMA Stepwise == IInv /\ [Next]_vars => IInv'
<1> SUFFICES ASSUME IInv, [Next]_vars PROVE IInv'
  OBVIOUS
<1>1. ASSUME NEW p \in Procs, ProcessStep(p) PROVE IInv'
  BY <1>1, ReadSecretKeeps, FlushSecretKeeps, RenameSecretKeeps, BindKeeps, HeartbeatBeginsKeeps,
     HeartbeatPublishesKeeps, HeartbeatExitsKeeps, QuiesceKeeps, CloseKeeps, RebindKeeps,
     PublishBeginsKeeps, PublishKeeps, StopFinishesKeeps DEF ProcessStep
<1>2. ASSUME NEW p \in Procs, Generate(p) \/ SecretWriteFails(p) \/ Stop(p) \/ Crash(p) PROVE IInv'
  BY <1>2, GenerateKeeps, SecretWriteFailsKeeps, StopKeeps, CrashKeeps
<1> QED
  BY <1>1, <1>2, PowerLossKeeps, ClientKeeps, StutterKeeps DEF Next

\* Where the files, the secrets and the manifests of every process stand.
THEOREM Invariance == Spec => []IInv
  BY Initially, Stepwise, PTL DEF Spec

\* Whatever crashes and whenever, nobody sees half a secret or half a manifest.
THEOREM ConsistentCorrect == Spec => []Consistent
<1>1. IInv => Consistent
  <2> SUFFICES ASSUME IInv PROVE Consistent
    OBVIOUS
  <2>1. SecretFileWhole
    BY Values DEF IInv, FileSafe, SecretFileWhole, Readable
  <2>2. ManifestWhole
    BY DEF IInv, Orderly, TrueManifest, ManifestWhole
  <2> QED
    BY <2>1, <2>2 DEF IInv, Consistent
<1> QED
  BY <1>1, Invariance, PTL

\* What a serving process advertises is where it listens; a process that is gone or
\* withdrew advertises nothing, and nothing is on its way.
THEOREM AdvertisesTrulyCorrect == Spec => []AdvertisesTruly
<1>1. IInv => AdvertisesTruly
  <2> SUFFICES ASSUME IInv, NEW p \in Procs
               PROVE  /\ pc[p] = "up" => manifest[p] \in {None, port[p]}
                      /\ pc[p] \in {"withdrawn", "stopped"}
                         => manifest[p] = None /\ \A t \in Threads : writing[p][t] = None
    BY DEF AdvertisesTruly
  <2>1. beat[p] \in Beats /\ OneWriter(p) /\ TrueManifest(p)
    BY DEF IInv, TypeOK, Orderly
  <2>2. pc[p] = "up" => manifest[p] \in {None, port[p]}
    BY <2>1 DEF TrueManifest, Beating
  <2>3. pc[p] \in {"withdrawn", "stopped"} => manifest[p] = None
    BY <2>1 DEF TrueManifest, Unpublished
  <2>4. pc[p] \in {"withdrawn", "stopped"} => writing[p]["ui"] = None /\ writing[p]["heartbeat"] = None
    BY <2>1 DEF OneWriter, Beating, Beats
  <2> QED
    BY <2>2, <2>3, <2>4, ThreadNames
<1> QED
  BY <1>1, Invariance, PTL

\* A serving process authenticates with the secret in the file if it wrote that last,
\* through failed and finished resets.
THEOREM ServesWhatItWroteCorrect == Spec => []ServesWhatItWrote
<1>1. IInv => ServesWhatItWrote
  BY DEF IInv, Orderly, OwnFile, ServesWhatItWrote
<1> QED
  BY <1>1, Invariance, PTL
=============================================================================
