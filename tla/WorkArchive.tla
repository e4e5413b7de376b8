----------------------------- MODULE WorkArchive -----------------------------
(***************************************************************************)
(* The saved work of the Desktop Chat Host: the tool results each          *)
(* conversation retains, the bytes of their exports, and the one persist   *)
(* tail through which manifests and bytes reach the store                  *)
(* (coordinator.ts #captureToolResult, #viewerResourceRead, #persist;      *)
(* store.ts save, saveArtifact).  Saving a manifest prunes every byte file *)
(* it does not reference, so the order of the tail decides whether bytes   *)
(* survive.  Captures of different conversations overlap; those of one do  *)
(* not.                                                                    *)
(*                                                                         *)
(* A result has one export, named by its digest.  Retention of whole       *)
(* conversations by age and number is not modelled.                        *)
(***************************************************************************)
EXTENDS Naturals, Sequences, FiniteSets, SequencesExt

CONSTANTS
  Conversations, Calls, Digests,
  ArchiveSettings  \* how much is kept and how often each bounded thing happens

\* keep is TOOL_RESULTS_MAX, 20 in the code; capture bounds the tool results
\* delivered, redeliveries included; touch the other saves, of messages and
\* questions; read the viewer's reads of a retained export; failure the store
\* writes that reject, none of a sound store; crash the deaths of the host.
ArchiveSetting == [keep : Nat \ {0}, capture : Nat, touch : Nat, read : Nat,
                   sound : BOOLEAN, failure : Nat, crash : Nat]

ASSUME ArchiveAssumption ==
  /\ ArchiveSettings \subseteq ArchiveSetting
  /\ \A s \in ArchiveSettings : s.sound => s.failure = 0

VARIABLES
  results,   \* toolResults of each conversation, newest last
  capture,   \* the capture each conversation is in
  reader,    \* the viewer read the IPC loop is in
  writes,    \* byte writes and manifest saves in call order
  indexed,   \* the save at the head has written its index
  manifest,  \* the results the store's index holds
  bytes,     \* the digests whose byte files exist
  issued,    \* the revisions handed out, with their calls
  unbacked,  \* the entries a restart has found called saved and without bytes
  budget     \* the setting, with what is left of its bounds

archiveVars == <<results, capture, reader, writes, indexed, manifest, bytes, issued,
                 unbacked, budget>>

SpendBudget(thing) ==
  /\ budget[thing] > 0
  /\ budget' = [budget EXCEPT ![thing] = @ - 1]

NoCapture == [stage |-> "none", failed |-> FALSE]
NoReader == [stage |-> "none"]

EntriesOf(c) == ToSet(results[c])

\* #persist: every conversation's results as they are now.
Snapshot(owner) == [kind |-> "save", owner |-> owner, saved |-> results']

Queued(owner) == \E i \in DOMAIN writes : writes[i].owner = owner

\* Digests a manifest keeps alive; everything else prunes.
referencedArtifactDigests(saved) ==
  {e.digest : e \in {f \in UNION {ToSet(saved[c]) : c \in Conversations} :
                       f.state = "saved"}}

\* Mutant: revisions are counted, not continued.
RevisionCount(c) == Len(results[c])

maxToolRevision(c) ==
  IF results[c] = <<>> THEN 0
  ELSE CHOOSE n \in {e.revision : e \in EntriesOf(c)} :
         \A e \in EntriesOf(c) : e.revision <= n

\* A redelivery keeps the revision of the entry it replaces.
Revision(c, call) ==
  IF \E e \in EntriesOf(c) : e.call = call
  THEN (CHOOSE e \in EntriesOf(c) : e.call = call).revision
  ELSE maxToolRevision(c) + 1

\* Mutant: a redelivery is appended beside the entry it repeats.
AppendedAgain(c, entry) ==
  LET all == Append(results[c], entry)
  IN SubSeq(all, IF Len(all) > budget.keep THEN Len(all) - budget.keep + 1 ELSE 1, Len(all))

\* The entries of the other calls: a call has one at most.
Others(entries, call) ==
  IF \E i \in DOMAIN entries : entries[i].call = call
  THEN RemoveAt(entries, CHOOSE i \in DOMAIN entries : entries[i].call = call)
  ELSE entries

\* The last `keep` of the other calls' entries and this one.
Appended(c, entry) ==
  LET all == Append(Others(results[c], entry.call), entry)
  IN SubSeq(all, IF Len(all) > budget.keep THEN Len(all) - budget.keep + 1 ELSE 1, Len(all))

MarkMissing(entries, call, digest) ==
  [i \in DOMAIN entries |->
     IF entries[i].call = call /\ entries[i].digest = digest
     THEN [entries[i] EXCEPT !.state = "missing"] ELSE entries[i]]

------------------------------------------------------------------------------
(* #captureToolResult, from await to await.                                *)

\* The revision is chosen before the export is fetched.
captureToolResult(c, call, digest) ==
  /\ capture[c] = NoCapture /\ SpendBudget("capture")
  /\ capture' = [capture EXCEPT ![c] =
       [stage |-> "fetch", failed |-> FALSE, call |-> call, digest |-> digest,
        revision |-> Revision(c, call)]]
  /\ UNCHANGED <<results, reader, writes, indexed, manifest, bytes, issued, unbacked>>

\* The export is fetched and verified, or it is missing with a reason: too
\* large, unreadable, of another size or digest.
fetchArchivePayloads == {"saved", "missing"}

\* Mutant: the bytes are written at once, outside the persist tail.
BytesOutsideTail(c) ==
  LET k == capture[c] IN
  /\ k.stage = "fetch"
  /\ results' = [results EXCEPT ![c] = Appended(c,
       [call |-> k.call, digest |-> k.digest, revision |-> k.revision,
        state |-> "saved"])]
  /\ bytes' = bytes \cup {k.digest}
  /\ issued' = [issued EXCEPT ![c] = @ \cup {<<k.revision, k.call>>}]
  /\ capture' = [capture EXCEPT ![c].stage = "write"]
  /\ UNCHANGED <<reader, writes, indexed, manifest, unbacked, budget>>

\* Mutant: the manifest is queued ahead of its bytes.
ManifestFirst(c) ==
  LET k == capture[c] IN
  /\ k.stage = "fetch"
  /\ results' = [results EXCEPT ![c] = Appended(c,
       [call |-> k.call, digest |-> k.digest, revision |-> k.revision,
        state |-> "saved"])]
  /\ writes' = writes \o <<Snapshot("none"), [kind |-> "bytes", owner |-> c,
                                              digest |-> k.digest]>>
  /\ issued' = [issued EXCEPT ![c] = @ \cup {<<k.revision, k.call>>}]
  /\ capture' = [capture EXCEPT ![c].stage = "write"]
  /\ UNCHANGED <<reader, indexed, manifest, bytes, unbacked, budget>>

\* The entry is appended and its bytes are queued with no await between; a
\* missing export has none to write.
AppendResult(c) ==
  LET k == capture[c] IN
  /\ k.stage = "fetch"
  /\ \E state \in fetchArchivePayloads :
       /\ results' = [results EXCEPT ![c] = Appended(c,
            [call |-> k.call, digest |-> k.digest, revision |-> k.revision,
             state |-> state])]
       /\ writes' = IF state = "missing" THEN writes
                    ELSE Append(writes, [kind |-> "bytes", owner |-> c,
                                         digest |-> k.digest])
  /\ issued' = [issued EXCEPT ![c] = @ \cup {<<k.revision, k.call>>}]
  /\ capture' = [capture EXCEPT ![c].stage = "write"]
  /\ UNCHANGED <<reader, indexed, manifest, bytes, unbacked, budget>>

\* The write has ended: a rejected one makes the entry missing.
WriteEnded(c) ==
  LET k == capture[c] IN
  /\ k.stage = "write" /\ ~Queued(c)
  /\ results' = IF k.failed
                THEN [results EXCEPT ![c] = MarkMissing(@, k.call, k.digest)]
                ELSE results
  /\ writes' = Append(writes, Snapshot(c))
  /\ capture' = [capture EXCEPT ![c].stage = "save", ![c].failed = FALSE]
  /\ UNCHANGED <<reader, indexed, manifest, bytes, issued, unbacked, budget>>

CaptureSaved(c) ==
  /\ capture[c].stage = "save" /\ ~Queued(c)
  /\ capture' = [capture EXCEPT ![c] = NoCapture]
  /\ UNCHANGED <<results, reader, writes, indexed, manifest, bytes, issued, unbacked, budget>>

\* Any other change of any conversation saves them all.
Touch ==
  /\ SpendBudget("touch")
  /\ results' = results
  /\ writes' = Append(writes, Snapshot("none"))
  /\ UNCHANGED <<capture, reader, indexed, manifest, bytes, issued, unbacked>>

------------------------------------------------------------------------------
(* #viewerResourceRead: bytes that are not there make the entry missing.   *)

loadArtifact(c, e) ==
  /\ reader = NoReader /\ e.state = "saved" /\ SpendBudget("read")
  /\ reader' = [stage |-> "loaded", conversation |-> c, call |-> e.call,
                digest |-> e.digest, found |-> e.digest \in bytes]
  /\ UNCHANGED <<results, capture, writes, indexed, manifest, bytes, issued, unbacked>>

viewerResourceRead ==
  /\ reader.stage = "loaded"
  /\ IF reader.found
     THEN UNCHANGED <<results, writes>>
     ELSE /\ results' = [results EXCEPT ![reader.conversation] =
                           MarkMissing(@, reader.call, reader.digest)]
          /\ writes' = Append(writes, Snapshot("none"))
  /\ reader' = NoReader
  /\ UNCHANGED <<capture, indexed, manifest, bytes, issued, unbacked, budget>>

------------------------------------------------------------------------------
(* The store, one queued task at a time.                                   *)

saveArtifact ==
  /\ writes # <<>> /\ Head(writes).kind = "bytes"
  /\ bytes' = bytes \cup {Head(writes).digest}
  /\ writes' = Tail(writes)
  /\ UNCHANGED <<results, capture, reader, indexed, manifest, issued, unbacked, budget>>

WriteIndex ==
  /\ writes # <<>> /\ Head(writes).kind = "save" /\ ~indexed
  /\ manifest' = Head(writes).saved
  /\ indexed' = TRUE
  /\ UNCHANGED <<results, capture, reader, writes, bytes, issued, unbacked, budget>>

pruneArtifacts ==
  /\ indexed
  /\ bytes' = bytes \cap referencedArtifactDigests(Head(writes).saved)
  /\ writes' = Tail(writes)
  /\ indexed' = FALSE
  /\ UNCHANGED <<results, capture, reader, manifest, issued, unbacked, budget>>

\* A task rejects, a save before or after its index; the tail goes on.
TaskFails ==
  /\ writes # <<>> /\ SpendBudget("failure")
  /\ writes' = Tail(writes) /\ indexed' = FALSE
  /\ capture' = IF Head(writes).kind = "bytes"
                THEN [capture EXCEPT ![Head(writes).owner].failed = TRUE]
                ELSE capture
  /\ UNCHANGED <<results, reader, manifest, bytes, issued, unbacked>>

\* The process dies and the next one restores the results from the index.
ArchiveCrash ==
  /\ SpendBudget("crash")
  /\ results' = manifest
  /\ capture' = [c \in Conversations |-> NoCapture]
  /\ reader' = NoReader /\ writes' = <<>> /\ indexed' = FALSE
  /\ issued' = [c \in Conversations |->
                  {<<e.revision, e.call>> : e \in ToSet(manifest[c])}]
  /\ unbacked' = [c \in Conversations |->
                    {e \in ToSet(manifest[c]) : e.state = "saved" /\ e.digest \notin bytes}]
  /\ UNCHANGED <<manifest, bytes>>

------------------------------------------------------------------------------
ArchiveInit ==
  /\ results = [c \in Conversations |-> <<>>]
  /\ capture = [c \in Conversations |-> NoCapture]
  /\ reader = NoReader /\ writes = <<>> /\ indexed = FALSE
  /\ manifest = results /\ bytes = {}
  /\ issued = [c \in Conversations |-> {}] /\ unbacked = [c \in Conversations |-> {}]
  /\ budget \in ArchiveSettings

ArchiveNext ==
  \/ \E c \in Conversations :
       \/ \E call \in Calls, digest \in Digests : captureToolResult(c, call, digest)
       \/ AppendResult(c) \/ WriteEnded(c) \/ CaptureSaved(c)
       \/ \E e \in EntriesOf(c) : loadArtifact(c, e)
  \/ Touch \/ viewerResourceRead
  \/ saveArtifact \/ WriteIndex \/ pruneArtifacts \/ TaskFails
  \/ ArchiveCrash

ArchiveSpec == ArchiveInit /\ [][ArchiveNext]_archiveVars

------------------------------------------------------------------------------
EntryType == [call : Calls, digest : Digests, state : {"saved", "missing"},
              revision : Nat \ {0}]

\* Every variable has its type, and no conversation keeps more than `keep`
\* results or two of one call.
ArchiveTypeOK ==
  /\ \A c \in Conversations :
       /\ results[c] \in Seq(EntryType) /\ Len(results[c]) <= budget.keep
       /\ \A i, j \in DOMAIN results[c] :
            results[c][i].call = results[c][j].call => i = j
       /\ capture[c].stage \in {"none", "fetch", "write", "save"}
       /\ capture[c].failed \in BOOLEAN
  /\ reader.stage \in {"none", "loaded"} /\ indexed \in BOOLEAN
  /\ bytes \subseteq Digests /\ budget \in ArchiveSetting

\* The bytes of an entry are still to be written, or their write has just
\* been refused and the entry is about to say so.
Unsettled(c, e) ==
  /\ capture[c].stage = "write" /\ capture[c].call = e.call
  /\ Queued(c) \/ capture[c].failed

\* A stale snapshot can never prune bytes ahead of their manifest: an entry
\* that says "saved" has its bytes in the store once its write is over,
\* whichever conversation captures, retires or saves in between.  Only what the
\* last restart found called saved and was not there may still be missing.
SavedIsBacked ==
  \A c \in Conversations : \A e \in EntriesOf(c) :
    e.state = "saved" /\ ~Unsettled(c, e) /\ e \notin unbacked[c] => e.digest \in bytes

\* What the index on disk calls saved is there, at every instant a crash could
\* strike: bytes land before the manifest that names them, and a prune takes
\* nothing the index on disk still names.  A store that rejects the bytes while
\* another conversation's save waits behind them breaks this until the entry's
\* own save: the waiting snapshot calls them saved.
DiskIsBacked == budget.sound => referencedArtifactDigests(manifest) \subseteq bytes

\* Revisions identify result versions: no two calls of a conversation are
\* handed the same one, not even after the older was retired.
RevisionsIdentifyCalls ==
  \A c \in Conversations : \A p, q \in issued[c] : p[1] = q[1] => p[2] = q[2]

\* The work shown as saved is saved, and known by its own revision.
ArchiveIsSound == ArchiveTypeOK /\ SavedIsBacked /\ DiskIsBacked /\ RevisionsIdentifyCalls
==============================================================================
