------------------------------- MODULE Ingest -------------------------------
(***************************************************************************)
(* ingest_documents (rag/documents.py), the coroutine that stores the PDFs *)
(* of a folder through the gateway's qdrant-store tool and keeps a         *)
(* manifest of content hashes on disk.  A version stands for the content   *)
(* of a file and for its digest.  The coroutine awaits in each store call; *)
(* between hashing and reading a file it does not, but the folder belongs  *)
(* to other programs.  Serve says when it is started, cancelled or killed. *)
(***************************************************************************)
EXTENDS Integers, Sequences, Selection

CONSTANTS
    Files,     \* the files, as the sequence that discover_pdfs sorts them into
    Versions,  \* the contents a file may have
    ChunksOf,  \* the number of chunks chunk_pdf makes of each version
    MaxEdits,  \* bound: changes made to the folder
    MaxStarts  \* bound: starts of the server

FileSet == {Files[k] : k \in DOMAIN Files}

ASSUME IngestAssumption ==
    /\ Files \in Seq(FileSet) /\ ChunksOf \in [Versions -> Nat]
    /\ MaxEdits \in Nat /\ MaxStarts \in Nat

VARIABLES
    folder,    \* the version of each file, Absent if there is none
    manifest,  \* the manifest on disk: file -> digest
    stored,    \* the chunks <<file, version, index>> in the store
    missed,    \* chunks not stored for a known reason (history variable)
    job,       \* the coroutine
    edits,     \* changes made to the folder
    starts     \* starts of the server

ingest == <<folder, manifest, stored, missed, job, edits>>

Absent == "absent"
None == "none"
Empty == [f \in {} |-> None]
Chunks(f, v) == {<<f, v, i>> : i \in 1..ChunksOf[v]}

(* at: "idle", "scheduled", "hash", "read", "store" or "save"; known is    *)
(* its copy of the manifest, next the index of the chunk to store.         *)
NoJob == [at |-> "idle", todo |-> <<>>, known |-> Empty,
          digest |-> None, text |-> None, next |-> 0]
Scheduled == [NoJob EXCEPT !.at = "scheduled"]
Working == job.at # "idle"
File == Head(job.todo)

IngestInit ==
    /\ starts = 0
    /\ folder \in [FileSet -> Versions \cup {Absent}]
    /\ manifest = Empty
    /\ stored = {} /\ missed = {}
    /\ job = NoJob
    /\ edits = 0

-----------------------------------------------------------------------------
Get(m, f) == IF f \in DOMAIN m THEN m[f] ELSE None

With(m, f, v) == [g \in DOMAIN m \cup {f} |-> IF g = f THEN v ELSE m[g]]

Advance == IF Len(job.todo) = 1 THEN NoJob
           ELSE [job EXCEPT !.at = "hash", !.todo = Tail(@),
                            !.digest = None, !.text = None, !.next = 0]

(* Any exception ends the coroutine; post_startup logs it.                 *)
Raise == job' = NoJob /\ UNCHANGED <<folder, manifest, stored, missed, edits>>

(* discover_pdfs: the PDFs there are now, sorted.                          *)
Pdfs == Select(Files, {k \in DOMAIN Files : folder[Files[k]] # Absent})

(* Seeded fault of Discover: the manifest is not read back.                *)
Discover_Afresh(tools) ==
    /\ job.at = "scheduled"
    /\ job' = IF Pdfs = <<>> \/ "store" \notin tools THEN NoJob
              ELSE [NoJob EXCEPT !.at = "hash", !.todo = Pdfs]
    /\ UNCHANGED <<folder, manifest, stored, missed, edits>>

(* The lifespan makes a task of it.                                        *)
Schedule ==
    /\ ~Working /\ job' = Scheduled
    /\ UNCHANGED <<folder, manifest, stored, missed, edits>>

(* List the folder, find the store tool, load the manifest.                *)
Discover(tools) ==
    /\ job.at = "scheduled"
    /\ job' = IF Pdfs = <<>> \/ "store" \notin tools THEN NoJob
              ELSE [NoJob EXCEPT !.at = "hash", !.todo = Pdfs, !.known = manifest]
    /\ UNCHANGED <<folder, manifest, stored, missed, edits>>

(* Seeded fault of HashFile: the file is recorded before it is stored.     *)
HashFile_Records ==
    /\ job.at = "hash" /\ folder[File] # Absent
    /\ job' = IF Get(job.known, File) = folder[File] THEN Advance
              ELSE [job EXCEPT !.at = "read", !.digest = folder[File]]
    /\ manifest' = With(manifest, File, folder[File])
    /\ UNCHANGED <<folder, stored, missed, edits>>

(* Skip a file whose digest is the recorded one; one that is gone, or       *)
(* cannot be read, raises.                                                 *)
HashFile ==
    /\ job.at = "hash"
    /\ \/ Raise
       \/ /\ folder[File] # Absent
          /\ job' = IF Get(job.known, File) = folder[File] THEN Advance
                    ELSE [job EXCEPT !.at = "read", !.digest = folder[File]]
          /\ UNCHANGED <<folder, manifest, stored, missed, edits>>

(* chunk_pdf reads the file again: it may be gone, or unreadable, or no    *)
(* longer what was hashed.  No text, no chunks.                            *)
ReadFile ==
    /\ job.at = "read"
    /\ \/ Raise
       \/ /\ folder[File] # Absent
          /\ job' = [job EXCEPT !.at = IF ChunksOf[folder[File]] = 0 THEN "save" ELSE "store",
                                !.text = folder[File], !.next = 1]
          /\ missed' = IF folder[File] = job.digest THEN missed
                       ELSE missed \cup Chunks(File, job.digest)
          /\ UNCHANGED <<folder, manifest, stored, edits>>

(* Seeded fault of StoreChunk: one chunk too many.                         *)
StoreChunk_OffByOne(up) ==
    LET chunk == <<File, job.text, job.next>>
    IN  /\ job.at = "store"
        /\ up /\ stored' = stored \cup {chunk} /\ UNCHANGED missed
        /\ job' = IF job.next > ChunksOf[job.text] THEN [job EXCEPT !.at = "save"]
                  ELSE [job EXCEPT !.next = @ + 1]
        /\ UNCHANGED <<folder, manifest, edits>>

(* One store call.  A result that starts with "Error:" is logged and the   *)
(* loop goes on; the call may have reached the store all the same.         *)
StoreChunk(up) ==
    LET chunk == <<File, job.text, job.next>>
    IN  /\ job.at = "store"
        /\ \/ up /\ stored' = stored \cup {chunk} /\ UNCHANGED missed
           \/ missed' = missed \cup {chunk} /\ UNCHANGED stored
           \/ up /\ stored' = stored \cup {chunk} /\ missed' = missed \cup {chunk}
        /\ job' = IF job.next = ChunksOf[job.text] THEN [job EXCEPT !.at = "save"]
                  ELSE [job EXCEPT !.next = @ + 1]
        /\ UNCHANGED <<folder, manifest, edits>>

(* Record the file, whatever became of its chunks.  write_text empties the *)
(* file before it writes, so a failed write leaves nothing to load.        *)
Save ==
    /\ job.at = "save"
    /\ \/ /\ manifest' = With(job.known, File, job.digest)
          /\ job' = IF Advance = NoJob THEN NoJob ELSE [Advance EXCEPT !.known = manifest']
          /\ UNCHANGED <<folder, stored, missed, edits>>
       \/ /\ manifest' \in {manifest, Empty}
          /\ job' = NoJob
          /\ UNCHANGED <<folder, stored, missed, edits>>

(* The task is cancelled where it awaits, or the process dies anywhere:    *)
(* the store call under way may still be carried out, the manifest being   *)
(* written may be lost.                                                    *)
Cancelled(up) ==
    /\ job' = NoJob
    /\ \/ UNCHANGED stored
       \/ job.at = "store" /\ up /\ stored' = stored \cup {<<File, job.text, job.next>>}
    /\ UNCHANGED <<folder, manifest, missed, edits>>

Killed(up) ==
    \/ Cancelled(up)
    \/ /\ job.at = "save"
       /\ manifest' \in {Empty, With(job.known, File, job.digest)}
       /\ job' = NoJob
       /\ UNCHANGED <<folder, stored, missed, edits>>

IngestStep(tools, up) ==
    Discover(tools) \/ HashFile \/ ReadFile \/ StoreChunk(up) \/ Save

(* Someone adds, changes or removes a file.                                *)
Edit ==
    /\ edits < MaxEdits /\ edits' = edits + 1
    /\ \E f \in FileSet, v \in Versions \cup {Absent} :
          v # folder[f] /\ folder' = [folder EXCEPT ![f] = v]
    /\ UNCHANGED <<manifest, stored, missed, job>>

-----------------------------------------------------------------------------
IsManifest(m) == DOMAIN m \subseteq FileSet /\ \A f \in DOMAIN m : m[f] \in Versions

IngestTypeOK ==
    /\ folder \in [FileSet -> Versions \cup {Absent}]
    /\ IsManifest(manifest) /\ IsManifest(job.known)
    /\ edits \in 0..MaxEdits /\ starts \in 0..MaxStarts
    /\ job.at \in {"idle", "scheduled", "hash", "read", "store", "save"}
    /\ job.at \in {"read", "store", "save"} => job.digest \in Versions
    /\ job.at = "store" => job.text \in Versions /\ job.next \in 1..ChunksOf[job.text]
    /\ stored \cup missed \subseteq UNION {Chunks(f, v) : f \in FileSet, v \in Versions}

(* The manifest makes a restart skip a file for good, so it must not get   *)
(* ahead of the store: what it records has been stored, chunk by chunk,    *)
(* or is missing because a store call failed or the file changed while it  *)
(* was read -- and never because a run was cancelled or killed half-way.   *)
RecordedIsStored ==
    \A f \in DOMAIN manifest : Chunks(f, manifest[f]) \subseteq stored \cup missed

(* What the manifest on disk records is never redone: the content being    *)
(* read and stored is not the one recorded for its file, in whatever start *)
(* of the server it was recorded.  This is less than "an interrupted run   *)
(* resumes without redoing finished files" (documents.py:128): a write of  *)
(* the manifest that is cut short empties it, and then every file is done  *)
(* again.                                                                  *)
FinishedIsNotRedone ==
    job.at \in {"read", "store", "save"} => Get(manifest, File) # job.digest
=============================================================================
