---------------------------- MODULE Serve_proofs ----------------------------
(***************************************************************************)
(* Proofs about the ingestion for every list of files, set of contents and *)
(* way of cutting them into chunks, and about the server that runs it for  *)
(* every set of settings and every number of starts: what the lifespan     *)
(* owes to what it has started, and that the ingestion keeps its promises  *)
(* inside it.                                                              *)
(***************************************************************************)
EXTENDS Serve, Selection_proofs, TLAPS

-----------------------------------------------------------------------------
(* The ingestion, alone.                                                   *)

(* The coroutine is a record whose index counts from one.                  *)
JobShape ==
    /\ job = [at |-> job.at, todo |-> job.todo, known |-> job.known,
              digest |-> job.digest, text |-> job.text, next |-> job.next]
    /\ job.at \in {"idle", "scheduled", "hash", "read", "store", "save"}
    /\ job.next \in Nat
    /\ job.at = "store" => job.next >= 1

(* Its copy of the manifest is the one on disk.                            *)
InStep == job.at \in {"hash", "read", "store", "save"} => job.known = manifest

(* What it is about to record is stored or missed, as far as it has come;  *)
(* if the text is not what was hashed, the chunks of the digest are missed.*)
Behind(v, n) == {<<File, v, i>> : i \in 1..n} \subseteq stored \cup missed

Progress ==
    /\ job.at = "store" =>
          /\ Behind(job.text, job.next - 1)
          /\ job.text = job.digest \/ Chunks(File, job.digest) \subseteq missed
    /\ job.at = "save" => Chunks(File, job.digest) \subseteq stored \cup missed

IInv == JobShape /\ InStep /\ Progress /\ RecordedIsStored /\ FinishedIsNotRedone

LEMMA NoJobFields ==
    /\ NoJob = [at |-> NoJob.at, todo |-> NoJob.todo, known |-> NoJob.known,
                digest |-> NoJob.digest, text |-> NoJob.text, next |-> NoJob.next]
    /\ NoJob.at = "idle" /\ NoJob.next = 0
  BY DEF NoJob

LEMMA InitInv == IngestInit => IInv
  BY DEF IngestInit, IInv, JobShape, InStep, Progress, RecordedIsStored,
         FinishedIsNotRedone, NoJob, Empty

(* A coroutine that is gone leaves nothing to show; the manifest it leaves *)
(* is the old one, an empty one, or it covers the file being saved.        *)
LEMMA GoneInv ==
    ASSUME IInv, job' = NoJob,
           stored \cup missed \subseteq stored' \cup missed',
           \/ manifest' = manifest
           \/ manifest' = Empty
           \/ job.at = "save" /\ manifest' = With(job.known, File, job.digest)
    PROVE  IInv'
<1>1. JobShape' /\ InStep' /\ Progress' /\ FinishedIsNotRedone'
  BY DEF NoJob, JobShape, InStep, Progress, FinishedIsNotRedone
<1>2. RecordedIsStored'
  <2>1. CASE manifest' = manifest
    BY <2>1 DEF IInv, RecordedIsStored, Chunks
  <2>2. CASE manifest' = Empty
    BY <2>2 DEF RecordedIsStored, Empty
  <2>3. CASE job.at = "save" /\ manifest' = With(job.known, File, job.digest)
    BY <2>3 DEF IInv, InStep, Progress, RecordedIsStored, With, Chunks
  <2> QED
    BY <2>1, <2>2, <2>3
<1> QED
  BY <1>1, <1>2 DEF IInv

(* Going on to the next file.                                              *)
LEMMA AdvanceIs ==
    ASSUME JobShape
    PROVE  \/ Advance = NoJob
           \/ /\ Advance # NoJob
              /\ Advance.at = "hash" /\ Advance.known = job.known /\ Advance.next = 0
              /\ \A m : [Advance EXCEPT !.known = m] =
                    [at |-> "hash", todo |-> Advance.todo, known |-> m,
                     digest |-> Advance.digest, text |-> Advance.text, next |-> 0]
              /\ Advance = [at |-> "hash", todo |-> Advance.todo, known |-> job.known,
                            digest |-> Advance.digest, text |-> Advance.text, next |-> 0]
<1>1. Advance = NoJob \/ Advance =
          [at |-> "hash", todo |-> Tail(job.todo), known |-> job.known,
           digest |-> None, text |-> None, next |-> 0]
  BY DEF Advance, JobShape
<1> QED
  BY <1>1 DEF NoJob

LEMMA DiscoverInv == ASSUME IInv, NEW found, Discover(found) PROVE IInv'
<1>1. CASE job' = NoJob
  BY <1>1, GoneInv DEF Discover
<1>2. CASE job' = [NoJob EXCEPT !.at = "hash", !.todo = Pdfs, !.known = manifest]
  <2>1. job' = [at |-> "hash", todo |-> Pdfs, known |-> manifest,
                digest |-> None, text |-> None, next |-> 0]
    BY <1>2 DEF NoJob
  <2>2. UNCHANGED <<manifest, stored, missed>>
    BY DEF Discover
  <2>3. JobShape' /\ InStep' /\ Progress' /\ FinishedIsNotRedone'
    BY <2>1, <2>2 DEF JobShape, InStep, Progress, FinishedIsNotRedone
  <2>4. RecordedIsStored'
    BY <2>2 DEF IInv, RecordedIsStored, Chunks
  <2> QED
    BY <2>3, <2>4 DEF IInv
<1> QED
  BY <1>1, <1>2 DEF Discover

LEMMA HashInv == ASSUME IInv, HashFile PROVE IInv'
<1>1. CASE Raise
  BY <1>1, GoneInv DEF Raise
<1>2. CASE /\ Get(job.known, File) = folder[File]
           /\ job' = Advance /\ UNCHANGED <<folder, manifest, stored, missed, edits>>
  <2>1. CASE Advance = NoJob
    BY <1>2, <2>1, GoneInv
  <2>2. CASE Advance # NoJob
    BY <1>2, <2>2, AdvanceIs DEF IInv, HashFile, JobShape, InStep, Progress,
       RecordedIsStored, FinishedIsNotRedone, Chunks
  <2> QED
    BY <2>1, <2>2
<1>3. CASE /\ Get(job.known, File) # folder[File]
           /\ job' = [job EXCEPT !.at = "read", !.digest = folder[File]]
           /\ UNCHANGED <<folder, manifest, stored, missed, edits>>
  <2>1. job' = [at |-> "read", todo |-> job.todo, known |-> job.known,
                digest |-> folder[File], text |-> job.text, next |-> job.next]
    BY <1>3 DEF IInv, JobShape
  <2>2. File' = File /\ job'.known = manifest' /\ Get(manifest, File) # folder[File]
    BY <1>3, <2>1 DEF IInv, InStep, HashFile, File
  <2>3. JobShape' /\ InStep' /\ Progress'
    BY <2>1, <2>2 DEF IInv, JobShape, InStep, Progress
  <2>4. RecordedIsStored'
    BY <1>3 DEF IInv, RecordedIsStored, Chunks
  <2>5. FinishedIsNotRedone'
    BY <1>3, <2>1, <2>2 DEF FinishedIsNotRedone, Get
  <2> QED
    BY <2>3, <2>4, <2>5 DEF IInv
<1> QED
  BY <1>1, <1>2, <1>3 DEF HashFile

LEMMA ReadInv == ASSUME IInv, ReadFile PROVE IInv'
<1>1. CASE Raise
  BY <1>1, GoneInv DEF Raise
<1>2. CASE ~Raise
  <2>1. /\ job.at = "read"
        /\ job' = [at |-> IF ChunksOf[folder[File]] = 0 THEN "save" ELSE "store",
                   todo |-> job.todo, known |-> job.known,
                   digest |-> job.digest, text |-> folder[File], next |-> 1]
        /\ UNCHANGED <<folder, manifest, stored, edits>>
        /\ missed' = IF folder[File] = job.digest THEN missed
                     ELSE missed \cup Chunks(File, job.digest)
    BY <1>2 DEF ReadFile, IInv, JobShape
  <2>2. File' = File
    BY <2>1 DEF File
  <2>3. JobShape' /\ InStep'
    BY <2>1 DEF IInv, JobShape, InStep
  <2>4. job'.text = job'.digest \/ Chunks(File, job.digest) \subseteq missed'
    BY <2>1
  <2>5. Progress'
    <3>1. CASE ChunksOf[folder[File]] = 0
      <4>1. Chunks(File, folder[File]) = {}
        BY <3>1 DEF Chunks
      <4>2. Chunks(File, job.digest) \subseteq stored' \cup missed'
        BY <2>1, <2>4, <4>1
      <4> QED
        BY <2>1, <2>2, <3>1, <4>2 DEF Progress, Chunks
    <3>2. CASE ChunksOf[folder[File]] # 0
      <4>1. Behind(job.text, job.next - 1)'
        BY <2>1 DEF Behind
      <4> QED
        BY <2>1, <2>2, <2>4, <3>2, <4>1 DEF Progress, Chunks
    <3> QED
      BY <3>1, <3>2
  <2>6. RecordedIsStored'
    BY <2>1 DEF IInv, RecordedIsStored, Chunks
  <2>7. FinishedIsNotRedone'
    BY <2>1, <2>2 DEF IInv, FinishedIsNotRedone, Get
  <2> QED
    BY <2>3, <2>5, <2>6, <2>7 DEF IInv
<1> QED
  BY <1>1, <1>2

LEMMA StoreInv == ASSUME IInv, NEW up, StoreChunk(up) PROVE IInv'
<1> DEFINE last == job.next = ChunksOf[job.text]
<1>1. /\ job.at = "store"
      /\ UNCHANGED <<folder, manifest, edits>>
      /\ stored' \cup missed' = stored \cup missed \cup {<<File, job.text, job.next>>}
      /\ missed \subseteq missed'
  BY DEF StoreChunk
<1>2. job' = [at |-> IF last THEN "save" ELSE "store", todo |-> job.todo,
              known |-> job.known, digest |-> job.digest, text |-> job.text,
              next |-> IF last THEN job.next ELSE job.next + 1]
  BY DEF StoreChunk, IInv, JobShape
<1>3. File' = File
  BY <1>2 DEF File
<1>4. JobShape' /\ InStep'
  BY <1>1, <1>2 DEF IInv, JobShape, InStep
<1>5. {<<File, job.text, i>> : i \in 1..job.next} \subseteq stored' \cup missed'
  <2>1. \A i \in 1..job.next : i \in 1..(job.next - 1) \/ i = job.next
    BY DEF IInv, JobShape
  <2> QED
    BY <1>1, <2>1 DEF IInv, Progress, Behind
<1>6. Progress'
  <2>1. job.text = job.digest \/ Chunks(File, job.digest) \subseteq missed'
    BY <1>1 DEF IInv, Progress
  <2>2. CASE last
    <3>1. Chunks(File, job.text) \subseteq stored' \cup missed'
      BY <1>5, <2>2 DEF Chunks
    <3>2. Chunks(File, job.digest) \subseteq stored' \cup missed'
      BY <2>1, <3>1
    <3>3. Chunks(File, job.digest)' = Chunks(File, job.digest)
      BY <1>2, <1>3 DEF Chunks
    <3> QED
      BY <1>2, <2>2, <3>2, <3>3 DEF Progress
  <2>3. CASE ~last
    <3>1. Behind(job.text, job.next - 1)'
      <4>1. job'.text = job.text /\ job'.next - 1 = job.next
        BY <1>2, <2>3 DEF IInv, JobShape
      <4> QED
        BY <1>3, <1>5, <4>1 DEF Behind
    <3>2. Chunks(File, job.digest)' = Chunks(File, job.digest)
      BY <1>2, <1>3 DEF Chunks
    <3> QED
      BY <1>2, <2>1, <2>3, <3>1, <3>2 DEF Progress
  <2> QED
    BY <2>2, <2>3
<1>7. RecordedIsStored'
  BY <1>1 DEF IInv, RecordedIsStored, Chunks
<1>8. FinishedIsNotRedone'
  BY <1>1, <1>2, <1>3 DEF IInv, FinishedIsNotRedone, Get
<1> QED
  BY <1>4, <1>6, <1>7, <1>8 DEF IInv

LEMMA SaveInv == ASSUME IInv, Save PROVE IInv'
<1>1. CASE /\ manifest' = With(job.known, File, job.digest)
           /\ job' = IF Advance = NoJob THEN NoJob ELSE [Advance EXCEPT !.known = manifest']
           /\ UNCHANGED <<folder, stored, missed, edits>>
  <2>1. CASE Advance = NoJob
    BY <1>1, <2>1, GoneInv DEF Save
  <2>2. CASE Advance # NoJob
    <3>1. job' = [at |-> "hash", todo |-> Advance.todo, known |-> manifest',
                  digest |-> Advance.digest, text |-> Advance.text, next |-> 0]
      BY <1>1, <2>2, AdvanceIs DEF IInv
    <3>2. JobShape' /\ InStep' /\ Progress' /\ FinishedIsNotRedone'
      BY <3>1 DEF JobShape, InStep, Progress, FinishedIsNotRedone
    <3>3. RecordedIsStored'
      BY <1>1 DEF Save, IInv, InStep, Progress, RecordedIsStored, With, Chunks
    <3> QED
      BY <3>2, <3>3 DEF IInv
  <2> QED
    BY <2>1, <2>2
<1>2. CASE /\ manifest' \in {manifest, Empty}
           /\ job' = NoJob
           /\ UNCHANGED <<folder, stored, missed, edits>>
  BY <1>2, GoneInv
<1> QED
  BY <1>1, <1>2 DEF Save

LEMMA StepInv == ASSUME IInv, NEW found, NEW up, IngestStep(found, up) PROVE IInv'
BY DiscoverInv, HashInv, ReadInv, StoreInv, SaveInv DEF IngestStep

LEMMA CancelledInv == ASSUME IInv, NEW up, Cancelled(up) PROVE IInv'
BY GoneInv DEF Cancelled

LEMMA KilledInv == ASSUME IInv, NEW up, Killed(up) PROVE IInv'
BY CancelledInv, GoneInv DEF Killed

LEMMA ScheduleInv == ASSUME IInv, Schedule PROVE IInv'
<1>1. /\ job' = [at |-> "scheduled", todo |-> <<>>, known |-> Empty,
                 digest |-> None, text |-> None, next |-> 0]
      /\ UNCHANGED <<manifest, stored, missed>>
  BY DEF Schedule, Scheduled, NoJob
<1>2. JobShape' /\ InStep' /\ Progress' /\ FinishedIsNotRedone'
  BY <1>1 DEF JobShape, InStep, Progress, FinishedIsNotRedone
<1>3. RecordedIsStored'
  BY <1>1 DEF IInv, RecordedIsStored, Chunks
<1> QED
  BY <1>2, <1>3 DEF IInv

(* The invariant does not look at the folder.                              *)
LEMMA ElsewhereInv == ASSUME IInv, UNCHANGED <<manifest, stored, missed, job>> PROVE IInv'
BY DEF IInv, JobShape, InStep, Progress, Behind, RecordedIsStored, FinishedIsNotRedone,
       Chunks, File, Get

-----------------------------------------------------------------------------
(* The server.                                                             *)

Held == ToSet(stack)

(* The exit stack: no service twice, the gateway's stop on top.            *)
StackShape ==
    /\ stack \in Seq(Services)
    /\ \A i, j \in 1..Len(stack) : stack[i] = stack[j] => i = j
    /\ \A i \in 1..Len(stack) : stack[i] = "gateway" => i = Len(stack)

(* What has been registered where the lifespan stands.                     *)
Registered ==
    /\ stage = "down" \/ stage = "qdrant" => Held = {}
    /\ stage = "openshell" => Held \subseteq {"qdrant"}
    /\ stage = "gateway" \/ stage = "probing" => "gateway" \notin Held
    /\ (stage = "mcp" \/ stage = "serving" \/ stage = "cancelling") /\ settings.gateway
          => "gateway" \in Held

(* What runs has a stop on the stack, or none that could be made to work.  *)
Owned ==
    /\ available \subseteq Held
    /\ "openshell" \in available => sandbox
    /\ Running => stage = "probing" \/ "gateway" \in Held
    /\ container /\ settings.qdrant = "managed" /\ settings.stop_on_exit /\ stage # "qdrant"
          => "qdrant" \in Held \cup excused
    /\ sandbox /\ settings.openshell /\ settings.delete_on_exit
          /\ stage # "qdrant" /\ stage # "openshell"
          => "openshell" \in Held \cup excused

WorksInside == Working => stage = "serving" \/ stage = "cancelling"

ServeInv == StackShape /\ Registered /\ Owned /\ WorksInside /\ SandboxTargetsHaveSandbox

-----------------------------------------------------------------------------
LEMMA Push ==
    ASSUME StackShape, NEW svc \in Services, svc \notin Held, "gateway" \notin Held,
           Register(svc)
    PROVE  StackShape' /\ Held' = Held \cup {svc}
<1>1. /\ stack' \in Seq(Services) /\ Len(stack') = Len(stack) + 1
      /\ \A i \in 1..Len(stack) : stack'[i] = stack[i]
      /\ stack'[Len(stack) + 1] = svc
  BY DEF Register, StackShape
<1>2. \A i \in 1..Len(stack) : stack[i] # svc /\ stack[i] # "gateway"
  BY DEF Held, ToSet, StackShape
<1>3. StackShape'
  BY <1>1, <1>2 DEF StackShape
<1>4. Held' = Held \cup {svc}
  <2>1. \A i \in 1..Len(stack') : i \in 1..Len(stack) \/ i = Len(stack) + 1
    BY <1>1 DEF StackShape
  <2>2. 1..Len(stack) \subseteq 1..Len(stack') /\ Len(stack) + 1 \in 1..Len(stack')
    BY <1>1 DEF StackShape
  <2>3. Held' = {stack'[i] : i \in 1..Len(stack')} /\ Held = {stack[i] : i \in 1..Len(stack)}
    BY <1>1 DEF Held, ToSet, StackShape
  <2> QED
    BY <1>1, <2>1, <2>2, <2>3
<1> QED
  BY <1>3, <1>4

LEMMA FrontIs ==
    ASSUME NEW S, NEW s \in Seq(S), s # <<>>
    PROVE  /\ Front(s) \in Seq(S) /\ Len(Front(s)) = Len(s) - 1
           /\ \A i \in 1..(Len(s) - 1) : Front(s)[i] = s[i]
<1>1. PICK n \in Nat : n = Len(s) - 1
  OBVIOUS
<1>2. Front(s) \in Seq(S)
  BY DEF Front
<1>3. Len(Front(s)) = n
  BY <1>1 DEF Front
<1>4. \A i \in 1..n : Front(s)[i] = s[i]
  BY <1>1 DEF Front
<1> QED
  BY <1>1, <1>2, <1>3, <1>4

LEMMA Pop ==
    ASSUME StackShape, NEW svc, Unwind(svc)
    PROVE  /\ StackShape' /\ Held' = Held \ {svc} /\ svc \in Held
           /\ "gateway" \in Held => svc = "gateway"
<1>1. /\ stack \in Seq(Services) /\ Len(stack) > 0 /\ svc = stack[Len(stack)]
      /\ stack' \in Seq(Services) /\ Len(stack') = Len(stack) - 1
      /\ \A i \in 1..(Len(stack) - 1) : stack'[i] = stack[i]
  <2>1. /\ stack \in Seq(Services) /\ stack # <<>> /\ svc = stack[Len(stack)]
        /\ stack' = Front(stack)
    BY DEF Unwind, Top, Last, StackShape
  <2>2. Len(stack) \in Nat /\ Len(stack) > 0
    BY <2>1
  <2>3. /\ stack' \in Seq(Services) /\ Len(stack') = Len(stack) - 1
        /\ \A i \in 1..(Len(stack) - 1) : stack'[i] = stack[i]
    BY <2>1, FrontIs
  <2> QED
    BY <2>1, <2>2, <2>3
<1>2. StackShape'
  BY <1>1 DEF StackShape
<1>3. Held' = {stack'[i] : i \in 1..Len(stack')} /\ Held = {stack[i] : i \in 1..Len(stack)}
  BY <1>1 DEF Held, ToSet
<1>4. Held' = Held \ {svc} /\ svc \in Held
  BY <1>1, <1>3 DEF StackShape
<1>5. "gateway" \in Held => svc = "gateway"
  BY <1>1, <1>3 DEF StackShape
<1> QED
  BY <1>2, <1>4, <1>5

LEMMA Kept == UNCHANGED stack => UNCHANGED Held /\ (StackShape => StackShape')
  BY DEF Held, StackShape

LEMMA EmptyStack == StackShape => (stack = <<>> <=> Held = {})
<1> SUFFICES ASSUME StackShape PROVE stack = <<>> <=> Held = {}
  OBVIOUS
<1>1. stack \in Seq(Services) /\ Held = {stack[i] : i \in 1..Len(stack)}
  BY DEF StackShape, Held, ToSet
<1>2. CASE stack = <<>>
  BY <1>1, <1>2
<1>3. CASE stack # <<>>
  <2>1. 1 \in 1..Len(stack)
    BY <1>1, <1>3
  <2> QED
    BY <1>1, <1>3, <2>1
<1> QED
  BY <1>2, <1>3

LEMMA ServeInitInv == Init => ServeInv
<1> SUFFICES ASSUME Init PROVE ServeInv
  OBVIOUS
<1>1. StackShape /\ Held = {}
  BY DEF Init, StackShape, Held, ToSet
<1>2. WorksInside
  BY DEF Init, IngestInit, NoJob, WorksInside, Working
<1> QED
  BY <1>1, <1>2 DEF Init, ServeInv, Registered, Owned, Running, SandboxTargetsHaveSandbox

-----------------------------------------------------------------------------
(* The start.                                                              *)
LEMMA StartupInv == ASSUME ServeInv, Startup PROVE ServeInv'
<1> USE DEF ServeInv
<1>1. CASE SkipQdrant
  BY <1>1, Kept DEF SkipQdrant, Skip, Enter, gateway, world, ingest, Registered, Owned,
     Running, WorksInside, Working, SandboxTargetsHaveSandbox
<1>2. CASE StartQdrant
  BY <1>2, Push DEF StartQdrant, Enter, gateway, ingest, Services, Registered, Owned,
     Running, WorksInside, Working, SandboxTargetsHaveSandbox
<1>3. CASE SkipOpenShell
  BY <1>3, Kept DEF SkipOpenShell, Skip, Enter, gateway, world, ingest, Registered, Owned,
     Running, WorksInside, Working, SandboxTargetsHaveSandbox
<1>4. CASE StartOpenShell
  BY <1>4, Push DEF StartOpenShell, Enter, gateway, ingest, Services, Registered, Owned,
     Running, WorksInside, Working, SandboxTargetsHaveSandbox
<1>5. CASE SkipGateway
  BY <1>5, Kept DEF SkipGateway, Skip, Enter, gateway, world, ingest, Registered, Owned,
     Running, WorksInside, Working, SandboxTargetsHaveSandbox
<1>6. CASE Spawn
  <2>1. config' \in Rendered /\ settings.openshell /\ "shell" \in config'
           => "openshell" \in available
    BY DEF Rendered, SandboxUp, Targets
  <2>2. SandboxTargetsHaveSandbox'
    BY <1>6, <2>1 DEF Spawn, Enter, world, Owned, SandboxTargetsHaveSandbox
  <2>3. CASE proc' = "launched" /\ Enter("probing") /\ UNCHANGED stack
    BY <1>6, <2>2, <2>3, Kept DEF Spawn, Enter, world, ingest, Registered, Owned,
       Running, WorksInside, Working
  <2>4. CASE proc' = "none" /\ Enter("mcp") /\ Register("gateway")
    BY <1>6, <2>2, <2>4, Push DEF Spawn, Enter, world, ingest, Services, Registered,
       Owned, Running, WorksInside, Working
  <2> QED
    BY <1>6, <2>3, <2>4 DEF Spawn
<1>7. CASE Probe
  <2>1. stage = "probing" /\ "gateway" \notin Held /\ Register("gateway")
    BY <1>7 DEF Probe, Registered
  <2>2. StackShape' /\ Held' = Held \cup {"gateway"}
    BY <2>1, Push DEF Services
  <2> QED
    BY <1>7, <2>2 DEF Probe, Enter, world, ingest, Registered, Owned, Running,
       WorksInside, Working, SandboxTargetsHaveSandbox
<1>8. CASE EnterManager
  <2>1. UNCHANGED Held /\ StackShape'
    BY <1>8, Kept DEF EnterManager
  <2> QED
    BY <1>8, <2>1 DEF EnterManager, Enter, world, Registered, Owned, Running,
       WorksInside, SandboxTargetsHaveSandbox
<1>9. CASE StartRaises
  <2>1. UNCHANGED Held /\ StackShape'
    BY <1>9, Kept DEF StartRaises
  <2>2. Services \ Held \subseteq excused' /\ excused \subseteq excused'
    BY <1>9 DEF StartRaises, Held
  <2> QED
    BY <1>9, <2>1, <2>2 DEF StartRaises, Enter, gateway, ingest, Services, Registered,
       Owned, Running, WorksInside, Working, SandboxTargetsHaveSandbox
<1> QED
  BY <1>1, <1>2, <1>3, <1>4, <1>5, <1>6, <1>7, <1>8, <1>9 DEF Startup

(* The teardown.                                                           *)
LEMMA TeardownInv == ASSUME ServeInv, Teardown PROVE ServeInv'
<1> USE DEF ServeInv
<1>1. CASE AwaitCancelled
  <2>1. UNCHANGED Held /\ StackShape'
    BY <1>1, Kept DEF AwaitCancelled
  <2>2. ~Working'
    BY <1>1 DEF AwaitCancelled, Cancelled, Working, NoJob
  <2> QED
    BY <1>1, <2>1, <2>2 DEF AwaitCancelled, Enter, gateway, world, Registered, Owned,
       Running, WorksInside, SandboxTargetsHaveSandbox
<1>2. CASE StopGateway
  BY <1>2, Pop DEF StopGateway, Unwind, ingest, Registered, Owned,
     Running, WorksInside, Working, SandboxTargetsHaveSandbox
<1>3. CASE StopQdrant
  BY <1>3, Pop DEF StopQdrant, Unwind, ingest, Registered, Owned,
     Running, WorksInside, Working, SandboxTargetsHaveSandbox
<1>4. CASE StopOpenShell
  BY <1>4, Pop DEF StopOpenShell, Unwind, ingest, Registered, Owned,
     Running, WorksInside, Working, SandboxTargetsHaveSandbox
<1>5. CASE Exit
  BY <1>5, Kept, EmptyStack DEF Exit, Enter, Forget, world, ingest, Registered, Owned,
     Running, WorksInside, Working, SandboxTargetsHaveSandbox
<1> QED
  BY <1>1, <1>2, <1>3, <1>4, <1>5 DEF Teardown

(* The environment.                                                        *)
LEMMA EnvironmentInv == ASSUME ServeInv, Environment PROVE ServeInv'
<1> USE DEF ServeInv
<1>1. CASE GatewayMoves
  BY <1>1, Kept DEF GatewayMoves, server, world, ingest, Registered, Owned,
     Running, WorksInside, Working, SandboxTargetsHaveSandbox
<1>2. CASE QdrantDies
  BY <1>2, Kept DEF QdrantDies, server, gateway, ingest, Registered, Owned,
     Running, WorksInside, Working, SandboxTargetsHaveSandbox
<1>3. CASE Kill
  <2>1. Held' = {} /\ StackShape'
    BY <1>3 DEF Kill, Held, ToSet, StackShape
  <2>2. ~Working'
    BY <1>3 DEF Kill, Killed, Cancelled, Working, NoJob
  <2> QED
    BY <1>3, <2>1, <2>2 DEF Kill, Enter, Forget, Services, Registered, Owned,
       Running, WorksInside, SandboxTargetsHaveSandbox
<1>4. CASE Boot
  BY <1>4, Kept DEF Boot, ingest, Registered, Owned,
     Running, WorksInside, Working, SandboxTargetsHaveSandbox
<1>5. CASE Shutdown
  BY <1>5, Kept DEF Shutdown, Enter, gateway, world, ingest, Registered, Owned,
     Running, WorksInside, Working, SandboxTargetsHaveSandbox
<1>6. CASE Edit /\ UNCHANGED <<server, gateway, world>>
  BY <1>6, Kept DEF Edit, server, gateway, world, Registered, Owned,
     Running, WorksInside, Working, SandboxTargetsHaveSandbox
<1> QED
  BY <1>1, <1>2, <1>3, <1>4, <1>5, <1>6 DEF Environment

LEMMA ServeStepInv == ServeInv /\ [Next]_vars => ServeInv'
<1> SUFFICES ASSUME ServeInv, [Next]_vars
             PROVE  ServeInv'
  OBVIOUS
<1>1. CASE Ingesting
  BY <1>1, Kept DEF Ingesting, server, gateway, world, ServeInv, Registered, Owned,
     Running, WorksInside, SandboxTargetsHaveSandbox
<1>2. CASE UNCHANGED vars
  BY <1>2, Kept DEF vars, server, gateway, world, ingest, ServeInv, Registered, Owned,
     Running, WorksInside, Working, SandboxTargetsHaveSandbox
<1> QED
  BY <1>1, <1>2, StartupInv, TeardownInv, EnvironmentInv DEF Next

LEMMA ServeInvariance == Spec => []ServeInv
  BY ServeInitInv, ServeStepInv, PTL DEF Spec

-----------------------------------------------------------------------------
(* The ingestion is alive only while the server serves, or waits for it to *)
(* be cancelled, and its gateway's stop is still to come (lifespan).       *)
THEOREM IngestionInside == Spec => []IngestsOnlyWhileServing
<1>1. ServeInv => IngestsOnlyWhileServing
  BY DEF ServeInv, WorksInside, Registered, IngestsOnlyWhileServing, Held
<1> QED
  BY ServeInvariance, <1>1, PTL

(* A server that is down, however far it had come and whatever failed, has *)
(* left no gateway and no service that it was to stop (AsyncExitStack).    *)
THEOREM NothingLeaks == Spec => []NothingIsLeftRunning
<1>1. ServeInv => NothingIsLeftRunning
  BY DEF ServeInv, Registered, Owned, NothingIsLeftRunning
<1> QED
  BY ServeInvariance, <1>1, PTL

(* No rendered config with sandbox targets outlives its sandbox.           *)
THEOREM TargetsHaveSandbox == Spec => []SandboxTargetsHaveSandbox
<1>1. ServeInv => SandboxTargetsHaveSandbox
  BY DEF ServeInv
<1> QED
  BY ServeInvariance, <1>1, PTL

-----------------------------------------------------------------------------
(* The ingestion inside the server, which starts, cancels and kills it,    *)
(* with the tools and the store it happens to have.                        *)
THEOREM Invariance == Spec => []IInv
<1>1. Init => IInv
  BY InitInv DEF Init
<1>2. ASSUME IInv, [Next]_vars
      PROVE  IInv'
  <2>1. CASE Ingesting
    BY <1>2, <2>1, StepInv DEF Ingesting
  <2>2. CASE EnterManager
    BY <1>2, <2>2, ScheduleInv DEF EnterManager
  <2>3. CASE AwaitCancelled
    BY <1>2, <2>3, CancelledInv DEF AwaitCancelled
  <2>4. CASE Kill
    BY <1>2, <2>4, KilledInv DEF Kill
  <2>5. CASE UNCHANGED <<manifest, stored, missed, job>>
    BY <1>2, <2>5, ElsewhereInv
  <2>6. \/ Ingesting \/ EnterManager \/ AwaitCancelled \/ Kill
        \/ UNCHANGED <<manifest, stored, missed, job>>
    BY <1>2 DEF Next, Startup, Teardown, Environment, vars, ingest, SkipQdrant,
       SkipOpenShell, SkipGateway, Skip, StartQdrant, StartOpenShell, Spawn, Probe,
       StartRaises, StopGateway, StopQdrant, StopOpenShell, Unwind, Exit, GatewayMoves,
       QdrantDies, Boot, Shutdown, Edit
  <2> QED
    BY <2>1, <2>2, <2>3, <2>4, <2>5, <2>6
<1> QED
  BY <1>1, <1>2, PTL DEF Spec

(* The manifest never gets ahead of the store (ingest_documents), whenever *)
(* the server stops and whatever happens to the folder meanwhile.          *)
THEOREM NothingRecordedEarly == Spec => []RecordedIsStored
<1>1. IInv => RecordedIsStored
  BY DEF IInv
<1> QED
  BY Invariance, <1>1, PTL

(* A file the manifest on disk records is not read or stored again         *)
(* (ingest_documents), in this start of the server or in a later one.      *)
THEOREM NothingRedone == Spec => []FinishedIsNotRedone
<1>1. IInv => FinishedIsNotRedone
  BY DEF IInv
<1> QED
  BY Invariance, <1>1, PTL

-----------------------------------------------------------------------------
(* The types.  The coroutine's list of files to do is not empty while it   *)
(* works on one, and the exit stack's shape bounds its length.             *)
Busy == job.at \in {"hash", "read", "store", "save"}

JobTypes ==
    /\ JobShape
    /\ job.todo \in Seq(FileSet) /\ (Busy => job.todo # <<>>)
    /\ IngestTypeOK

LEMMA ManifestWith ==
    ASSUME NEW m, IsManifest(m), NEW f \in FileSet, NEW v \in Versions
    PROVE  IsManifest(With(m, f, v))
  BY DEF IsManifest, With

LEMMA NoJobTypes ==
    ASSUME JobTypes, job' = NoJob, folder' \in [FileSet -> Versions \cup {Absent}],
           IsManifest(manifest'), UNCHANGED <<edits, starts>>,
           stored' \cup missed' \subseteq UNION {Chunks(f, v) : f \in FileSet, v \in Versions}
    PROVE  JobTypes'
<1>1. IsManifest(NoJob.known)
  BY DEF IsManifest, NoJob, Empty
<1>2. JobShape'
  BY DEF JobShape, NoJob
<1>3. /\ job'.todo = <<>> /\ job'.at = "idle" /\ job'.known = NoJob.known
  BY DEF NoJob
<1> QED
  BY <1>1, <1>2, <1>3 DEF JobTypes, IngestTypeOK, Busy

LEMMA FileIs == JobTypes /\ Busy => File \in FileSet
  BY DEF JobTypes, File

LEMMA ChunkIs ==
    ASSUME JobTypes, job.at = "store"
    PROVE  <<File, job.text, job.next>> \in UNION {Chunks(f, v) : f \in FileSet, v \in Versions}
<1>1. File \in FileSet
  BY FileIs DEF Busy
<1>2. job.text \in Versions /\ job.next \in 1..ChunksOf[job.text]
  BY DEF JobTypes, IngestTypeOK
<1>3. <<File, job.text, job.next>> \in Chunks(File, job.text)
  BY <1>2, Zenon DEF Chunks
<1> QED
  BY <1>1, <1>2, <1>3

LEMMA TailIs ==
    ASSUME NEW S, NEW s \in Seq(S), s # <<>>, Len(s) # 1
    PROVE  Tail(s) \in Seq(S) /\ Tail(s) # <<>>
<1> DEFINE t == Tail(s)
<1>1. t \in Seq(S) /\ Len(t) = Len(s) - 1
  BY HeadTailProperties
<1>2. Len(s) \in Nat /\ Len(s) # 0
  OBVIOUS
<1> HIDE DEF t
<1>3. t # <<>>
  BY <1>1, <1>2
<1> QED
  BY <1>1, <1>3 DEF t

LEMMA AdvanceTypes ==
    ASSUME JobTypes, Busy, IsManifest(manifest'), UNCHANGED <<folder, stored, missed, edits, starts>>,
           \/ job' = Advance
           \/ Advance # NoJob /\ job' = [Advance EXCEPT !.known = manifest']
    PROVE  JobTypes'
<1>1. CASE Len(job.todo) = 1
  BY <1>1, NoJobTypes DEF Advance, JobTypes, IngestTypeOK
<1>2. CASE Len(job.todo) # 1
  <2>1. job.todo \in Seq(FileSet) /\ job.todo # <<>>
    BY DEF JobTypes
  <2>2. Tail(job.todo) \in Seq(FileSet) /\ Tail(job.todo) # <<>>
    BY <1>2, <2>1, TailIs
  <2>3. Advance = [at |-> "hash", todo |-> Tail(job.todo), known |-> job.known,
                   digest |-> None, text |-> None, next |-> 0]
    <3>1. job = [at |-> job.at, todo |-> job.todo, known |-> job.known,
                 digest |-> job.digest, text |-> job.text, next |-> job.next]
      BY DEF JobTypes, JobShape
    <3> QED
      BY <1>2, <3>1 DEF Advance
  <2>4. PICK m \in {job.known, manifest'} :
            job' = [at |-> "hash", todo |-> Tail(job.todo), known |-> m,
                    digest |-> None, text |-> None, next |-> 0]
    BY <2>3
  <2>5. IsManifest(m)
    BY DEF JobTypes, IngestTypeOK
  <2>6. JobShape'
    BY <2>4 DEF JobShape
  <2>7. job'.at = "hash" /\ job'.todo = Tail(job.todo) /\ job'.known = m
    BY <2>4
  <2> QED
    BY <2>2, <2>5, <2>6, <2>7 DEF JobTypes, IngestTypeOK
<1> QED
  BY <1>1, <1>2

LEMMA DiscoverTypes ==
    ASSUME JobTypes, NEW found, Discover(found), UNCHANGED starts
    PROVE  JobTypes'
<1>1. CASE job' = NoJob
  BY <1>1, NoJobTypes DEF Discover, JobTypes, IngestTypeOK
<1>2. CASE Pdfs # <<>> /\ job' = [NoJob EXCEPT !.at = "hash", !.todo = Pdfs, !.known = manifest]
  <2>1. Pdfs \in Seq(FileSet)
    BY IngestAssumption, SelectPicks DEF Pdfs
  <2>2. job' = [at |-> "hash", todo |-> Pdfs, known |-> manifest,
                digest |-> None, text |-> None, next |-> 0]
    BY <1>2 DEF NoJob
  <2>3. JobShape'
    BY <2>2 DEF JobShape
  <2>4. job'.at = "hash" /\ job'.todo = Pdfs /\ job'.known = manifest
    BY <2>2
  <2> HIDE DEF Pdfs
  <2> QED
    BY <1>2, <2>1, <2>3, <2>4 DEF Discover, JobTypes, IngestTypeOK
<1> QED
  BY <1>1, <1>2 DEF Discover

LEMMA HashTypes == ASSUME JobTypes, HashFile, UNCHANGED starts PROVE JobTypes'
<1>1. CASE Raise
  BY <1>1, NoJobTypes DEF Raise, JobTypes, IngestTypeOK
<1>2. CASE ~Raise /\ job' = Advance
  BY <1>2, AdvanceTypes DEF HashFile, Busy, JobTypes, IngestTypeOK
<1>3. CASE ~Raise /\ folder[File] # Absent /\ job' = [job EXCEPT !.at = "read", !.digest = folder[File]]
  <2>1. Busy /\ File \in FileSet
    BY FileIs DEF HashFile, Busy
  <2>2. folder[File] \in Versions
    BY <1>3, <2>1 DEF JobTypes, IngestTypeOK
  <2>3. /\ job' = [at |-> "read", todo |-> job.todo, known |-> job.known,
                   digest |-> folder[File], text |-> job.text, next |-> job.next]
        /\ job.next \in Nat
    BY <1>3 DEF JobTypes, JobShape
  <2>4. JobShape'
    BY <2>3 DEF JobShape
  <2>5. job'.at = "read" /\ job'.todo = job.todo /\ job'.known = job.known /\ job'.digest = folder[File]
    BY <2>3
  <2> QED
    BY <2>1, <2>2, <2>4, <2>5 DEF HashFile, Raise, JobTypes, IngestTypeOK
<1> QED
  BY <1>1, <1>2, <1>3 DEF HashFile, Raise

LEMMA ReadTypes == ASSUME JobTypes, ReadFile, UNCHANGED starts PROVE JobTypes'
<1>1. CASE Raise
  BY <1>1, NoJobTypes DEF Raise, JobTypes, IngestTypeOK
<1>2. CASE ~Raise
  <2> DEFINE v == folder[File]
             at == IF ChunksOf[v] = 0 THEN "save" ELSE "store"
  <2>1. Busy /\ File \in FileSet
    BY FileIs DEF ReadFile, Busy
  <2>2. v \in Versions /\ job.digest \in Versions /\ ChunksOf[v] \in Nat
    BY <1>2, <2>1, IngestAssumption DEF ReadFile, JobTypes, IngestTypeOK
  <2>3. /\ job' = [at |-> at, todo |-> job.todo, known |-> job.known,
                   digest |-> job.digest, text |-> v, next |-> 1]
        /\ missed' \subseteq missed \cup Chunks(File, job.digest)
        /\ UNCHANGED <<folder, manifest, stored, edits>>
    BY <1>2 DEF ReadFile, JobTypes, JobShape
  <2>4. missed' \cup stored' \subseteq UNION {Chunks(f, w) : f \in FileSet, w \in Versions}
    BY <2>1, <2>2, <2>3 DEF JobTypes, IngestTypeOK
  <2> HIDE DEF v
  <2>5. JobShape'
    BY <2>3 DEF JobShape
  <2>6. /\ job'.at = at /\ job'.todo = job.todo /\ job'.known = job.known
        /\ job'.digest = job.digest /\ job'.text = v /\ job'.next = 1
    BY <2>3
  <2>7. at = "store" => 1 \in 1..ChunksOf[v]
    BY <2>2
  <2> QED
    BY <2>1, <2>2, <2>3, <2>4, <2>5, <2>6, <2>7 DEF JobTypes, IngestTypeOK, Busy
<1> QED
  BY <1>1, <1>2

LEMMA StoreTypes == ASSUME JobTypes, NEW up, StoreChunk(up), UNCHANGED starts PROVE JobTypes'
<1>1. Busy /\ job.at = "store"
  BY DEF StoreChunk, Busy
<1>2. /\ stored' \cup missed' \subseteq UNION {Chunks(f, v) : f \in FileSet, v \in Versions}
      /\ UNCHANGED <<folder, manifest, edits>>
  BY <1>1, ChunkIs DEF StoreChunk, JobTypes, IngestTypeOK
<1>3. /\ job.text \in Versions /\ job.next \in 1..ChunksOf[job.text]
      /\ ChunksOf[job.text] \in Nat /\ job.digest \in Versions
  BY <1>1, IngestAssumption DEF JobTypes, IngestTypeOK
<1>4. CASE job.next = ChunksOf[job.text]
  <2>1. job' = [at |-> "save", todo |-> job.todo, known |-> job.known,
                digest |-> job.digest, text |-> job.text, next |-> job.next]
    BY <1>4 DEF StoreChunk, JobTypes, JobShape
  <2>2. JobShape'
    BY <1>3, <2>1 DEF JobShape
  <2>3. /\ job'.at = "save" /\ job'.todo = job.todo /\ job'.known = job.known
        /\ job'.digest = job.digest
    BY <2>1
  <2> QED
    BY <1>1, <1>2, <1>3, <2>2, <2>3 DEF JobTypes, IngestTypeOK, Busy
<1>5. CASE job.next # ChunksOf[job.text]
  <2>1. job' = [at |-> "store", todo |-> job.todo, known |-> job.known,
                digest |-> job.digest, text |-> job.text, next |-> job.next + 1]
    BY <1>5, <1>1 DEF StoreChunk, JobTypes, JobShape
  <2>2. JobShape'
    BY <1>3, <2>1 DEF JobShape
  <2>3. /\ job'.at = "store" /\ job'.todo = job.todo /\ job'.known = job.known
        /\ job'.digest = job.digest /\ job'.text = job.text /\ job'.next = job.next + 1
    BY <2>1
  <2>4. job.next + 1 \in 1..ChunksOf[job.text]
    BY <1>3, <1>5
  <2> QED
    BY <1>1, <1>2, <1>3, <2>2, <2>3, <2>4 DEF JobTypes, IngestTypeOK, Busy
<1> QED
  BY <1>4, <1>5

LEMMA RecordedTypes ==
    JobTypes /\ job.at = "save" => IsManifest(With(job.known, File, job.digest)) /\ IsManifest(Empty)
<1>1. JobTypes /\ job.at = "save" =>
         File \in FileSet /\ job.digest \in Versions /\ IsManifest(job.known)
  BY FileIs DEF Busy, JobTypes, IngestTypeOK
<1>2. IsManifest(Empty)
  BY DEF IsManifest, Empty
<1> QED
  BY <1>1, <1>2, ManifestWith

LEMMA SaveTypes == ASSUME JobTypes, Save, UNCHANGED starts PROVE JobTypes'
<1>1. IsManifest(manifest') /\ Busy /\ UNCHANGED <<folder, stored, missed, edits>>
  BY RecordedTypes DEF Save, Busy, JobTypes, IngestTypeOK
<1>2. CASE job' = NoJob
  BY <1>1, <1>2, NoJobTypes DEF JobTypes, IngestTypeOK
<1>3. CASE Advance # NoJob /\ job' = [Advance EXCEPT !.known = manifest']
  BY <1>1, <1>3, AdvanceTypes
<1> QED
  BY <1>2, <1>3 DEF Save

LEMMA CancelledTypes == ASSUME JobTypes, NEW up, Cancelled(up), UNCHANGED starts PROVE JobTypes'
<1>1. /\ stored' \cup missed' \subseteq UNION {Chunks(f, v) : f \in FileSet, v \in Versions}
      /\ job' = NoJob /\ UNCHANGED <<folder, manifest, edits>>
  BY ChunkIs DEF Cancelled, JobTypes, IngestTypeOK
<1> QED
  BY <1>1, NoJobTypes DEF JobTypes, IngestTypeOK

LEMMA KilledTypes == ASSUME JobTypes, NEW up, Killed(up), UNCHANGED starts PROVE JobTypes'
<1>1. CASE Cancelled(up)
  BY <1>1, CancelledTypes
<1>2. CASE ~Cancelled(up)
  <2>1. /\ job' = NoJob /\ IsManifest(manifest') /\ UNCHANGED <<folder, stored, missed, edits>>
    BY <1>2, RecordedTypes DEF Killed
  <2> QED
    BY <2>1, NoJobTypes DEF JobTypes, IngestTypeOK
<1> QED
  BY <1>1, <1>2

LEMMA ScheduleTypes == ASSUME JobTypes, Schedule, UNCHANGED starts PROVE JobTypes'
<1>1. job' = [at |-> "scheduled", todo |-> <<>>, known |-> Empty,
              digest |-> None, text |-> None, next |-> 0]
  BY DEF Schedule, Scheduled, NoJob
<1>2. JobShape'
  BY <1>1 DEF JobShape
<1>3. job'.at = "scheduled" /\ job'.todo = <<>> /\ job'.known = Empty
  BY <1>1
<1>4. IsManifest(Empty)
  BY DEF IsManifest, Empty
<1> QED
  BY <1>2, <1>3, <1>4 DEF Schedule, JobTypes, IngestTypeOK, Busy

LEMMA EditTypes == ASSUME JobTypes, Edit, UNCHANGED starts PROVE JobTypes'
  BY IngestAssumption DEF Edit, JobTypes, IngestTypeOK, JobShape, Busy

LEMMA InitTypes == IngestInit => JobTypes
<1> SUFFICES ASSUME IngestInit PROVE JobTypes
  OBVIOUS
<1>1. job = [at |-> "idle", todo |-> <<>>, known |-> Empty,
             digest |-> None, text |-> None, next |-> 0]
  BY DEF IngestInit, NoJob
<1>2. JobShape
  BY <1>1 DEF JobShape
<1>3. job.at = "idle" /\ job.todo = <<>> /\ job.known = Empty
  BY <1>1
<1>4. IsManifest(Empty)
  BY DEF IsManifest, Empty
<1> QED
  BY <1>2, <1>3, <1>4, IngestAssumption DEF IngestInit, JobTypes, IngestTypeOK, Busy

LEMMA IngestStepTypes ==
    ASSUME JobTypes, NEW found, NEW up, IngestStep(found, up), UNCHANGED starts
    PROVE  JobTypes'
  BY DiscoverTypes, HashTypes, ReadTypes, StoreTypes, SaveTypes DEF IngestStep

LEMMA StackIsShort == StackShape => Held \subseteq Services /\ Len(stack) <= 3
<1> SUFFICES ASSUME StackShape PROVE Held \subseteq Services /\ Len(stack) <= 3
  OBVIOUS
<1>1. stack \in Seq(Services) /\ Held = {stack[i] : i \in 1..Len(stack)}
  BY DEF StackShape, Held, ToSet
<1>2. Held \subseteq Services
  BY <1>1
<1>3. Len(stack) <= 3
  <2> SUFFICES ASSUME Len(stack) > 3 PROVE FALSE
    BY <1>1
  <2>1. 1 \in 1..Len(stack) /\ 2 \in 1..Len(stack) /\ 3 \in 1..Len(stack) /\ 4 \in 1..Len(stack)
    BY <1>1
  <2>2. /\ stack[1] \in Services /\ stack[2] \in Services
        /\ stack[3] \in Services /\ stack[4] \in Services
    BY <1>1, <2>1
  <2>3. /\ stack[1] # stack[2] /\ stack[1] # stack[3] /\ stack[1] # stack[4]
        /\ stack[2] # stack[3] /\ stack[2] # stack[4] /\ stack[3] # stack[4]
    BY <2>1 DEF StackShape
  <2> QED
    BY <2>2, <2>3 DEF Services
<1> QED
  BY <1>2, <1>3

Around ==
    /\ stage \in Starting \cup {"down", "serving", "cancelling", "unwinding"}
    /\ settings \in Settings
    /\ available \subseteq Services
    /\ proc \in {"none", "launched", "listening", "exited"}
    /\ config \subseteq Targets /\ tools \subseteq Targets
    /\ {container, sandbox, ssh, fallback} \subseteq BOOLEAN
    /\ orphans \subseteq SUBSET Targets
    /\ excused \subseteq Services

LEMMA AroundAlways == ServeInv /\ Around /\ [Next]_vars => Around'
<1> SUFFICES ASSUME ServeInv, Around, [Next]_vars
             PROVE  Around'
  OBVIOUS
<1> USE DEF Around, Enter, Starting, Services, Targets, server, gateway, world
<1>1. CASE SkipQdrant \/ SkipOpenShell \/ SkipGateway
  BY <1>1 DEF SkipQdrant, SkipOpenShell, SkipGateway, Skip
<1>2. CASE StartQdrant
  BY <1>2 DEF StartQdrant
<1>3. CASE StartOpenShell
  BY <1>3 DEF StartOpenShell
<1>4. CASE Spawn
  BY <1>4 DEF Spawn, Rendered
<1>5. CASE Probe
  BY <1>5 DEF Probe
<1>6. CASE EnterManager
  <2>1. Answering \subseteq SUBSET Targets
    BY DEF Answering
  <2> QED
    BY <1>6, <2>1 DEF EnterManager
<1>7. CASE StartRaises
  BY <1>7 DEF StartRaises
<1>8. CASE Ingesting
  BY <1>8 DEF Ingesting
<1>9. CASE AwaitCancelled
  BY <1>9 DEF AwaitCancelled
<1>10. CASE StopGateway
  BY <1>10 DEF StopGateway, Unwind
<1>11. CASE StopQdrant
  BY <1>11 DEF StopQdrant, Unwind
<1>12. CASE StopOpenShell
  BY <1>12 DEF StopOpenShell, Unwind
<1>13. CASE Exit
  BY <1>13 DEF Exit, Forget
<1>14. CASE GatewayMoves
  BY <1>14 DEF GatewayMoves
<1>15. CASE QdrantDies
  BY <1>15 DEF QdrantDies
<1>16. CASE Kill
  BY <1>16 DEF Kill, Forget
<1>17. CASE Boot
  BY <1>17 DEF Boot
<1>18. CASE Shutdown
  BY <1>18 DEF Shutdown
<1>19. CASE UNCHANGED <<server, gateway, world>>
  BY <1>19
<1> QED
  BY <1>1, <1>2, <1>3, <1>4, <1>5, <1>6, <1>7, <1>8, <1>9, <1>10, <1>11, <1>12, <1>13,
     <1>14, <1>15, <1>16, <1>17, <1>18, <1>19
     DEF Next, Startup, Teardown, Environment, vars

LEMMA JobTypesAlways == JobTypes /\ [Next]_vars => JobTypes'
<1> SUFFICES ASSUME JobTypes, [Next]_vars
             PROVE  JobTypes'
  OBVIOUS
<1>1. CASE Ingesting
  BY <1>1, IngestStepTypes DEF Ingesting, server
<1>2. CASE EnterManager
  BY <1>2, ScheduleTypes DEF EnterManager, Enter
<1>3. CASE AwaitCancelled
  BY <1>3, CancelledTypes DEF AwaitCancelled, Enter
<1>4. CASE Kill
  BY <1>4, KilledTypes DEF Kill, Enter
<1>5. CASE Boot
  BY <1>5, IngestAssumption DEF Boot, ingest, JobTypes, IngestTypeOK, JobShape, Busy
<1>6. CASE Edit /\ UNCHANGED <<server, gateway, world>>
  BY <1>6, EditTypes DEF server
<1>7. CASE UNCHANGED <<ingest, starts>>
  BY <1>7 DEF ingest, JobTypes, IngestTypeOK, JobShape, Busy
<1>8. \/ Ingesting \/ EnterManager \/ AwaitCancelled \/ Kill \/ Boot
      \/ Edit /\ UNCHANGED <<server, gateway, world>>
      \/ UNCHANGED <<ingest, starts>>
  BY DEF Next, Startup, Teardown, Environment, vars, server, Enter, SkipQdrant,
     SkipOpenShell, SkipGateway, Skip, StartQdrant, StartOpenShell, Spawn, Probe,
     StartRaises, StopGateway, StopQdrant, StopOpenShell, Unwind, Exit, GatewayMoves,
     QdrantDies, Shutdown
<1> QED
  BY <1>1, <1>2, <1>3, <1>4, <1>5, <1>6, <1>7, <1>8

(* The variables of the server and of the ingestion keep their types, the  *)
(* coroutine its place in its list, the exit stack its three stops.        *)
THEOREM TypeCorrect == Spec => []TypeOK
<1>1. Init => JobTypes /\ Around
  BY InitTypes DEF Init, Around, Starting, Services, Targets
<1>2. ServeInv /\ JobTypes /\ Around => TypeOK
  BY StackIsShort DEF ServeInv, JobTypes, Around, TypeOK, Held
<1> QED
  BY ServeInvariance, AroundAlways, JobTypesAlways, <1>1, <1>2, PTL DEF Spec
=============================================================================
