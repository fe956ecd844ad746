------------------------------ MODULE Sessions ------------------------------
(***************************************************************************)
(* Conversation histories (crates/oreia-core/src/session.rs) and the jobs  *)
(* that use them: reply_direct() and summarize_session() of                *)
(* crates/oreia-seca/src/maker/direct.rs, the commands /resumir and        *)
(* /limpar, and the flush of the shutdown.                                 *)
(*                                                                         *)
(* A job runs on a worker thread of the runtime and gives it back at every *)
(* await.  Each operation of SessionStore is one step under its lock; the  *)
(* file operations of flush() come after the lock is free, one by one, and *)
(* all jobs use the same temporary file.  A file that is being written     *)
(* keeps its identity when it is renamed, so files are inodes here.        *)
(***************************************************************************)
EXTENDS Integers, FiniteSets, SequencesExt

CONSTANTS
    Jobs,           (* messages and commands handled, each once              *)
    Keys,           (* session keys                                          *)
    Workers,        (* threads of the runtime                                *)
    MaxMessages,    (* max_messages of a history                             *)
    Budget,         (* messages that fit the context of the model            *)
    MaxCrashes,     (* bound: how often the process dies                     *)
    DiskFaults      (* whether a file operation may fail                     *)

ASSUME SessionsAssumption ==
    /\ IsFiniteSet(Jobs) /\ IsFiniteSet(Keys)
    /\ Workers \in Nat \ {0}
    /\ MaxMessages \in Nat \ {0}
    /\ Budget \in Nat
    /\ MaxCrashes \in Nat
    /\ DiskFaults \in BOOLEAN

VARIABLES
    up,             (* "up", "down", or "refused": the boot failed           *)
    mem,            (* the histories in memory                               *)
    memVer,         (* which state of them that is                           *)
    clock,          (* the number of states memory has had                   *)
    kind, key, at,  (* what each job is, its session, where it is            *)
    after,          (* where it goes on after the flush it is in             *)
    transcript,     (* what summarize_session() read                         *)
    snapshot,       (* what flush() serialized                               *)
    handle,         (* the inode a flush is writing to                       *)
    tmp, file,      (* the inodes of sessions.json.tmp and sessions.json     *)
    content,        (* what is in each inode                                 *)
    crashes,
    (* History: *)
    saved,          (* the state each job was told is on disk, unless a      *)
                    (* process that could not read it has flushed since      *)
    unread,         (* whether this process found a file it could not read   *)
    raced,          (* whether two flushes were ever under way at once       *)
    recorded,       (* messages pushed, and neither cleared nor trimmed      *)
    overlapped      (* those pushed while a summary of their session was made *)

memVars == <<mem, memVer, clock, recorded, overlapped>>
diskVars == <<tmp, file, content>>
jobVars == <<kind, key, at, after, transcript, snapshot, handle, saved, raced, unread>>
vars == <<up, crashes, memVars, jobVars, diskVars>>

(* ------------------------------ Messages ------------------------------- *)

(* A message is what one job pushed; a summary stands for those it covers. *)
User(j) == [by |-> j, role |-> "user", covers |-> {<<j, "user">>}]
Assistant(j) == [by |-> j, role |-> "assistant", covers |-> {<<j, "assistant">>}]

Covered(history) == UNION {m.covers : m \in ToSet(history)}

Summary(j) == [by |-> j, role |-> "summary", covers |-> Covered(transcript[j])]

(* ------------------------------- Files --------------------------------- *)

Inodes == 1 .. Cardinality(Jobs) + 2
NoInode == 0
NoSnapshot == [ver |-> 0]
Empty == [len |-> 0, snap |-> NoSnapshot]

Unused == CHOOSE i \in Inodes : i \notin {tmp, file} \cup {handle[j] : j \in Jobs}

(* The length of the JSON grows with the messages in it. *)
Length(data) == 1 + Cardinality(UNION {{k} \X DOMAIN data[k] : k \in Keys})

(* A write at offset zero: what was there stays beyond its end. *)
Overwrite(old, snap) ==
    IF old.len <= Length(snap.data)
    THEN [len |-> Length(snap.data), snap |-> snap]
    ELSE [len |-> old.len, snap |-> NoSnapshot]

IsSnapshot(i) == content[i].snap # NoSnapshot

(* ------------------------------ Threads -------------------------------- *)

(* Where a job has a worker; everywhere else it waits or is over. *)
OnWorker == {"read", "sumread", "answered", "flush", "opening", "writing", "renaming"}
Flushing == {"opening", "writing", "renaming"}
Awaiting == {"summing", "asking"}
Stages == {"new", "ended"} \cup OnWorker \cup Awaiting
Kinds == {"reply", "resumir", "limpar", "shutdown"}

FreeWorker ==
    /\ up = "up"
    /\ Cardinality({j \in Jobs : at[j] \in OnWorker}) < Workers

Runs(j, stage) == up = "up" /\ at[j] = stage

Goto(j, stage) == at' = [at EXCEPT ![j] = stage]

(* Every change of memory is a new state of it. *)
Remember(new) ==
    /\ mem' = new
    /\ clock' = clock + 1
    /\ memVer' = clock + 1

(* A slip the properties are tested on: a history that is never trimmed. *)
PushUntrimmed(j, m) ==
    /\ Remember([mem EXCEPT ![key[j]] = Append(@, m)])
    /\ recorded' = recorded \cup m.covers
    /\ UNCHANGED overlapped

(* push(): the oldest messages go when there are too many. *)
Push(j, m) ==
    LET k == key[j]
        all == Append(mem[k], m)
        excess == IF Len(all) > MaxMessages THEN Len(all) - MaxMessages ELSE 0
        kept == SubSeq(all, excess + 1, Len(all))
        others == {i \in Jobs \ {j} : at[i] = "summing" /\ key[i] = k}
    IN  /\ Remember([mem EXCEPT ![k] = kept])
        /\ recorded' = (recorded \cup m.covers) \ (Covered(all) \ Covered(kept))
        /\ overlapped' = IF others = {} THEN overlapped ELSE overlapped \cup m.covers

(* ------------------------------- Jobs ---------------------------------- *)

(* handle(): the job gets a worker; /limpar clears at once. *)
Start(j, what, k) ==
    /\ at[j] = "new"
    /\ FreeWorker
    /\ kind' = [kind EXCEPT ![j] = what]
    /\ key' = [key EXCEPT ![j] = k]
    /\ CASE what = "reply" -> Goto(j, "read") /\ UNCHANGED memVars
         [] what = "resumir" -> Goto(j, "sumread") /\ UNCHANGED memVars
         [] what = "shutdown" -> Goto(j, "flush") /\ UNCHANGED memVars
         [] what = "limpar" ->
               /\ Goto(j, "flush")
               /\ Remember([mem EXCEPT ![k] = <<>>])
               /\ recorded' = recorded \ Covered(mem[k])
               /\ UNCHANGED overlapped
    /\ UNCHANGED <<up, crashes, after, transcript, snapshot, handle, saved, raced, unread, diskVars>>

(* reply_direct() looks whether history and message fit the context. *)
Read(j) ==
    /\ Runs(j, "read")
    /\ Goto(j, IF mem[key[j]] # <<>> /\ Len(mem[key[j]]) + 1 > Budget THEN "sumread" ELSE "asking")
    /\ UNCHANGED <<up, crashes, memVars, kind, key, after, transcript, snapshot, handle, saved, raced, unread, diskVars>>

(* Where a job goes on after summarize_session() failed or succeeded. *)
AfterSummary(j) == IF kind[j] = "reply" THEN "asking" ELSE "ended"

(* summarize_session() reads the history once more, then asks the model. *)
SummaryRead(j) ==
    /\ Runs(j, "sumread")
    /\ transcript' = [transcript EXCEPT ![j] = mem[key[j]]]
    /\ Goto(j, IF mem[key[j]] = <<>> THEN AfterSummary(j) ELSE "summing")
    /\ UNCHANGED <<up, crashes, memVars, kind, key, after, snapshot, handle, saved, raced, unread, diskVars>>

(* A slip: the history is emptied although there is no summary of it. *)
SummaryFailsEmptying(j) ==
    /\ Runs(j, "summing")
    /\ Remember([mem EXCEPT ![key[j]] = <<>>])
    /\ Goto(j, AfterSummary(j))
    /\ UNCHANGED <<up, crashes, recorded, overlapped, kind, key, after, transcript, snapshot,
                   handle, saved, raced, unread, diskVars>>

(* The model fails, or data/resumos cannot be written. *)
SummaryFails(j) ==
    /\ Runs(j, "summing")
    /\ Goto(j, AfterSummary(j))
    /\ UNCHANGED <<up, crashes, memVars, kind, key, after, transcript, snapshot, handle, saved, raced, unread, diskVars>>

(* replace(): the summary stands in for all that is there by now. *)
SummaryReplaces(j) ==
    /\ Runs(j, "summing")
    /\ FreeWorker
    /\ Remember([mem EXCEPT ![key[j]] = <<Summary(j)>>])
    /\ Goto(j, "flush")
    /\ after' = [after EXCEPT ![j] = AfterSummary(j)]
    /\ UNCHANGED <<up, crashes, recorded, overlapped, kind, key, transcript, snapshot,
                   handle, saved, raced, unread, diskVars>>

(* The rounds of model and actions, none of which touches the store. *)
AnswerFails(j) ==
    /\ Runs(j, "asking")
    /\ Goto(j, "ended")
    /\ UNCHANGED <<up, crashes, memVars, kind, key, after, transcript, snapshot, handle, saved, raced, unread, diskVars>>

Answer(j) ==
    /\ Runs(j, "asking")
    /\ FreeWorker
    /\ Push(j, User(j))
    /\ Goto(j, "answered")
    /\ UNCHANGED <<up, crashes, kind, key, after, transcript, snapshot, handle, saved, raced, unread, diskVars>>

PushAnswer(j) ==
    /\ Runs(j, "answered")
    /\ Push(j, Assistant(j))
    /\ Goto(j, "flush")
    /\ after' = [after EXCEPT ![j] = "ended"]
    /\ UNCHANGED <<up, crashes, kind, key, transcript, snapshot, handle, saved, raced, unread, diskVars>>

(* ------------------------------- flush() ------------------------------- *)

Serialize(j) ==
    /\ Runs(j, "flush")
    /\ snapshot' = [snapshot EXCEPT ![j] = [ver |-> memVer, data |-> mem]]
    /\ raced' = (raced \/ \E i \in Jobs : at[i] \in Flushing)
    /\ Goto(j, "opening")
    /\ UNCHANGED <<up, crashes, memVars, kind, key, after, transcript, handle, saved, unread, diskVars>>

(* write() opens the temporary file, or makes it, and empties it. *)
Open(j) ==
    /\ Runs(j, "opening")
    /\ LET inode == IF tmp = NoInode THEN Unused ELSE tmp
       IN  /\ handle' = [handle EXCEPT ![j] = inode]
           /\ tmp' = inode
           /\ content' = [content EXCEPT ![inode] = Empty]
    /\ Goto(j, "writing")
    /\ UNCHANGED <<up, crashes, memVars, kind, key, after, transcript, snapshot, saved, raced, unread, file>>

Write(j) ==
    /\ Runs(j, "writing")
    /\ content' = [content EXCEPT ![handle[j]] = Overwrite(@, snapshot[j])]
    /\ handle' = [handle EXCEPT ![j] = NoInode]
    /\ Goto(j, "renaming")
    /\ UNCHANGED <<up, crashes, memVars, kind, key, after, transcript, snapshot, saved, raced, unread, tmp, file>>

(* What a job that is past its flush keeps of it: nothing. *)
FlushOver(j) ==
    /\ Goto(j, after[j])
    /\ snapshot' = [snapshot EXCEPT ![j] = NoSnapshot]
    /\ handle' = [handle EXCEPT ![j] = NoInode]

(* rename() takes whatever is the temporary file by now; when another      *)
(* flush has renamed it, it fails.  When the boot could not read the file, *)
(* this is what overwrites what others were told is there.                 *)
Rename(j) ==
    /\ Runs(j, "renaming")
    /\ IF tmp = NoInode
       THEN UNCHANGED <<tmp, file, saved, unread>>
       ELSE /\ file' = tmp
            /\ tmp' = NoInode
            /\ saved' = [i \in Jobs |-> IF i = j THEN snapshot[j].ver ELSE IF unread THEN 0 ELSE saved[i]]
            /\ unread' = FALSE
    /\ FlushOver(j)
    /\ UNCHANGED <<up, crashes, memVars, kind, key, after, transcript, raced, content>>

(* The disk refuses one of them; half a file may have been written.        *)
DiskFails(j) ==
    /\ DiskFaults
    /\ up = "up"
    /\ at[j] \in Flushing
    /\ \/ UNCHANGED content
       \/ /\ at[j] = "writing"
          /\ content' = [content EXCEPT ![handle[j]] =
                            [len |-> IF @.len = 0 THEN 1 ELSE @.len, snap |-> NoSnapshot]]
    /\ FlushOver(j)
    /\ UNCHANGED <<up, crashes, memVars, kind, key, after, transcript, saved, raced, unread, tmp, file>>

(* --------------------------- Crash and boot ---------------------------- *)

(* The process dies, or ends after the flush of its shutdown: the jobs     *)
(* under way are gone, the files stay.                                     *)
Crash ==
    /\ up = "up"
    /\ crashes < MaxCrashes
    /\ crashes' = crashes + 1
    /\ up' = "down"
    /\ at' = [j \in Jobs |-> IF at[j] = "new" THEN "new" ELSE "ended"]
    /\ transcript' = [j \in Jobs |-> <<>>]
    /\ snapshot' = [j \in Jobs |-> NoSnapshot]
    /\ handle' = [j \in Jobs |-> NoInode]
    /\ UNCHANGED <<memVars, kind, key, after, saved, raced, unread, diskVars>>

Blank == IF file = NoInode THEN TRUE ELSE content[file].len = 0

NoHistories == [k \in Keys |-> <<>>]

(* What open() makes of the file, its last argument what the process knows *)
(* of it.                                                                  *)
Load(data, ver, blind) ==
    /\ up' = "up"
    /\ mem' = data
    /\ memVer' = ver
    /\ unread' = blind

Booted ==
    /\ recorded' = UNION {Covered(mem'[k]) : k \in Keys}
    /\ overlapped' = {}
    /\ UNCHANGED <<clock, crashes, kind, key, at, after, transcript, snapshot, handle, saved, raced, diskVars>>

(* A slip: a temporary file that is left over is taken for the newer one.  *)
BootFromTemporary ==
    /\ up = "down"
    /\ LET source == IF tmp # NoInode THEN tmp ELSE file
       IN  IF source # NoInode /\ IsSnapshot(source)
           THEN Load(content[source].snap.data, content[source].snap.ver, FALSE)
           ELSE Load(NoHistories, 0, FALSE)
    /\ Booted

(* open(): no file, or an empty one, is an empty store, and so is one that *)
(* cannot be read, or whose bytes are no text; text that is no JSON stops  *)
(* the boot.                                                               *)
Boot ==
    /\ up = "down"
    /\ \/ /\ Blank
          /\ Load(NoHistories, 0, FALSE)
       \/ /\ ~Blank /\ IsSnapshot(file)
          /\ Load(content[file].snap.data, content[file].snap.ver, FALSE)
       \/ /\ ~Blank
          /\ DiskFaults \/ ~IsSnapshot(file)
          /\ Load(NoHistories, 0, TRUE)
       \/ /\ ~Blank /\ ~IsSnapshot(file)
          /\ up' = "refused"
          /\ UNCHANGED <<mem, memVer, unread>>
    /\ Booted

Init ==
    /\ up = "up"
    /\ mem = [k \in Keys |-> <<>>]
    /\ memVer = 0
    /\ clock = 0
    /\ kind = [j \in Jobs |-> "reply"]
    /\ key \in {[j \in Jobs |-> k] : k \in Keys}
    /\ at = [j \in Jobs |-> "new"]
    /\ after = [j \in Jobs |-> "ended"]
    /\ transcript = [j \in Jobs |-> <<>>]
    /\ snapshot = [j \in Jobs |-> NoSnapshot]
    /\ handle = [j \in Jobs |-> NoInode]
    /\ tmp = NoInode
    /\ file = NoInode
    /\ content = [i \in Inodes |-> Empty]
    /\ crashes = 0
    /\ saved = [j \in Jobs |-> 0]
    /\ unread = FALSE
    /\ raced = FALSE
    /\ recorded = {}
    /\ overlapped = {}

Next ==
    \/ \E j \in Jobs :
          \/ \E what \in Kinds, k \in Keys : Start(j, what, k)
          \/ Read(j) \/ SummaryRead(j) \/ SummaryFails(j) \/ SummaryReplaces(j)
          \/ AnswerFails(j) \/ Answer(j) \/ PushAnswer(j)
          \/ Serialize(j) \/ Open(j) \/ Write(j) \/ Rename(j) \/ DiskFails(j)
    \/ Crash \/ Boot

Spec == Init /\ [][Next]_vars

----------------------------------------------------------------------------

(* Every variable keeps its type; a history never exceeds max_messages.    *)
TypeOK ==
    /\ up \in {"up", "down", "refused"}
    /\ \A k \in Keys : Len(mem[k]) <= MaxMessages
    /\ memVer \in 0 .. clock
    /\ kind \in [Jobs -> Kinds]
    /\ key \in [Jobs -> Keys]
    /\ at \in [Jobs -> Stages]
    /\ after \in [Jobs -> {"asking", "ended"}]
    /\ \A j \in Jobs : snapshot[j].ver \in 0 .. clock /\ saved[j] \in 0 .. clock
    /\ handle \in [Jobs -> Inodes \cup {NoInode}]
    /\ tmp \in Inodes \cup {NoInode}
    /\ file \in Inodes \cup {NoInode}
    /\ \A i \in Inodes : content[i].len \in Nat
    /\ crashes \in 0 .. MaxCrashes
    /\ unread \in BOOLEAN
    /\ overlapped \subseteq Jobs \X {"user", "assistant"}

(* "Grava no disco de forma atomica (arquivo temporario + rename)"         *)
(* (SessionStore::flush): sessions.json is always one whole snapshot.  Not *)
(* so in the code with two workers: one flush renames the temporary file   *)
(* that another is still writing.                                          *)
FileReadable == file # NoInode => IsSnapshot(file)

(* What a flush that returned Ok had written is lost to two things only:   *)
(* another flush at the same time, and the first flush of a process whose  *)
(* open() could not read the file and took it for no histories at all.     *)
(* Otherwise the file holds that state of the histories or a later one,    *)
(* after crashes, restarts and flushes that fail, and so does the memory   *)
(* of every process that could read it (flush(), open()).                  *)
SavedIsKept ==
    \A j \in Jobs :
        saved[j] > 0 /\ ~raced =>
            /\ file # NoInode
            /\ IsSnapshot(file)
            /\ content[file].snap.ver >= saved[j]
            /\ up = "up" /\ ~unread => memVer >= saved[j]

(* A summary forgets nothing but what was said while it was being made:    *)
(* every other message that was neither cleared nor trimmed is in the      *)
(* history, or in a summary that is (summarize_session(), reply_direct()). *)
ForgetsOnlyOverlaps ==
    up = "up" => recorded \ overlapped \subseteq UNION {Covered(mem[k]) : k \in Keys}
=============================================================================
