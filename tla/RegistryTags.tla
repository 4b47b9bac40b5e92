---------------------------- MODULE RegistryTags ----------------------------
(***************************************************************************)
(* imageimport.go, imageregistrytransfer.go and imageoperations.go, as far *)
(* as they change the tags of a registry: imports of archives and copies   *)
(* from other registries, which must not replace a tag; copies, renames    *)
(* and deletions of tags within a repository.                              *)
(*                                                                         *)
(* A registry deletes manifests, not tags: to remove one tag the code      *)
(* deletes the manifest, with every tag it has, and puts the other tags    *)
(* back, one after the other.  Imports and copies from elsewhere check and *)
(* write under a semaphore; the other changes do not take it.              *)
(*                                                                         *)
(* What a request reads from the registry in a row is one step.  An        *)
(* operation whose answer is lost may have been carried out.  Slots are in *)
(* FileTasks, the reading of archives is left out.                         *)
(***************************************************************************)
EXTENDS Integers, Sequences, FiniteSetsExt

CONSTANTS Tags, Manifests,
          Registries,  \* the tags a registry may have at first
          Plans,       \* what may be asked for: a sequence of requests
          None

Put(tag, manifest) == [tag |-> tag, manifest |-> manifest]
Import(puts) == [kind |-> "import", puts |-> puts]
Pull(tag, manifest) == [kind |-> "pull", puts |-> <<Put(tag, manifest)>>]
Retry(of, puts) == [kind |-> "retry", of |-> of, puts |-> puts]
Change(kind, source, target) == [kind |-> kind, source |-> source, target |-> target]

\* checkImportTargets refuses two images for one tag; a retry comes after what
\* it retries.
RegistryTagsAssumption ==
  /\ None \notin Manifests \cup Tags
  /\ Registries \subseteq [Tags -> Manifests \cup {None}]
  /\ \A p \in Plans :
       /\ DOMAIN p \subseteq Nat \ {0}
       /\ \A r \in DOMAIN p :
            /\ p[r].kind \in {"import", "pull", "retry", "copy", "rename", "delete", "deleteAll"}
            /\ p[r].kind \in {"import", "pull", "retry"} =>
                 /\ p[r].puts \in Seq([tag : Tags, manifest : Manifests])
                 /\ \A i, j \in DOMAIN p[r].puts : p[r].puts[i].tag = p[r].puts[j].tag => i = j
            /\ p[r].kind = "retry" =>
                 p[r].of \in DOMAIN p /\ p[r].of < r /\ p[p[r].of].kind = "import" /\ p[r].puts = p[p[r].of].puts
            /\ p[r].kind \in {"copy", "rename", "delete", "deleteAll"} => p[r].source \in Tags
            /\ p[r].kind \in {"copy", "rename"} => p[r].target \in Tags \ {p[r].source}
            /\ p[r].kind \in {"delete", "deleteAll"} => p[r].target = None

VARIABLES
  requests,
  \* The registry.
  tags,       \* the manifest each tag is for
  manifests,  \* those it has
  \* The tasks and calls.
  pc,
  canceled,
  status,     \* as the windows see it
  mutation,   \* who holds importMutationSem
  done,       \* how many of its puts a request has behind it
  published,  \* importPublished
  digest,     \* the manifest a change is about
  survivors,  \* the other tags of that manifest, still to be put back
  \* What the properties remember.
  last,       \* who wrote or removed each tag last
  disturbed,  \* the tags others have changed since a request looked at them
  replaced,   \* the tags an import replaced: by whom they had been written,
              \* and whether after it had looked
  unsure      \* a put of the request failed and may have been carried out

registry == <<tags, manifests>>
task == <<pc, canceled, status, mutation, done, published, digest, survivors>>
history == <<last, disturbed, replaced, unsure>>
vars == <<requests, registry, task, history>>

Requests == DOMAIN requests
Kind(r) == requests[r].kind
Nobody == 0

\* Only deletions are calls, which have no task, and no button that cancels them.
IsCall(r) == Kind(r) \in {"delete", "deleteAll"}
Imports(r) == Kind(r) \in {"import", "retry", "pull"}
AtWork(r) == pc[r] \notin {"asked", "refused", "left", "quit"}

Init ==
  /\ requests \in Plans
  /\ tags \in Registries /\ manifests = {tags[x] : x \in Tags} \ {None}
  /\ pc = [r \in Requests |-> "asked"]
  /\ canceled = [r \in Requests |-> FALSE] /\ status = [r \in Requests |-> "active"]
  /\ mutation = Nobody
  /\ done = [r \in Requests |-> 0]
  /\ published = [r \in Requests |-> [x \in Tags |-> None]]
  /\ digest = [r \in Requests |-> IF IsCall(r) THEN tags[requests[r].source] ELSE None]
  /\ survivors = [r \in Requests |-> {}]
  /\ last = [x \in Tags |-> Nobody]
  /\ disturbed = [r \in Requests |-> {}]
  /\ replaced = [r \in Requests |-> {}] /\ unsure = [r \in Requests |-> FALSE]

-----------------------------------------------------------------------------
GoTo(r, p) == pc' = [pc EXCEPT ![r] = p]
Ends(r, s) == GoTo(r, "left") /\ status' = [status EXCEPT ![r] = s]
Release(r) == mutation' = IF mutation = r THEN Nobody ELSE mutation

\* What a request does to the registry.
Touches(r, xs) ==
  /\ last' = [x \in Tags |-> IF x \in xs THEN r ELSE last[x]]
  /\ disturbed' = [s \in Requests |-> IF s = r THEN disturbed[s] ELSE disturbed[s] \cup xs]
Writes(r, x, m) ==
  /\ tags' = [tags EXCEPT ![x] = m] /\ manifests' = manifests \cup {m}
  /\ Touches(r, {x})
DeletesManifest(r, m) ==
  /\ m \in manifests /\ manifests' = manifests \ {m}
  /\ tags' = [x \in Tags |-> IF tags[x] = m THEN None ELSE tags[x]]
  /\ Touches(r, {x \in Tags : tags[x] = m})
Idles == UNCHANGED <<registry, last, disturbed>>
Looks(r) == disturbed' = [disturbed EXCEPT ![r] = {}]

(***************************************************************************)
(* Imports, and copies from other registries.                              *)
(***************************************************************************)
ImportTargets(r) == {requests[r].puts[i].tag : i \in DOMAIN requests[r].puts}

\* checkImportTargets: what an earlier attempt published is no conflict, if
\* it is still what that attempt put there.
ConflictsUnknown(r, known) == \E x \in ImportTargets(r) : tags[x] # None
Conflicts(r, known) == \E x \in ImportTargets(r) : tags[x] # None /\ tags[x] # known[x]

\* startImageImports, StartRegistryImagePulls, RetryImageTask: a retry is a
\* new task, which knows what the one that ended badly has published.
Ask(r) ==
  LET known == IF Kind(r) = "retry" THEN published[requests[r].of] ELSE published[r] IN
  /\ pc[r] = "asked" /\ Imports(r)
  /\ Kind(r) = "retry" => status[requests[r].of] \in {"failed", "canceled"}
  /\ IF Conflicts(r, known) THEN GoTo(r, "refused") /\ UNCHANGED published
     ELSE GoTo(r, "queued") /\ published' = [published EXCEPT ![r] = known]
  /\ UNCHANGED <<requests, registry, canceled, status, mutation, done, digest, survivors, history>>

Acquire(r) ==
  /\ pc[r] = "acquire" /\ mutation = Nobody
  /\ mutation' = r /\ GoTo(r, "check")
  /\ UNCHANGED <<requests, registry, canceled, status, done, published, digest, survivors, history>>

\* finishImageTransfer: once canceled, whatever was done.
Finishes(r, s) == Ends(r, IF canceled[r] THEN "canceled" ELSE s) /\ Release(r)

Check(r) ==
  /\ pc[r] = "check" /\ ~canceled[r]
  /\ IF Conflicts(r, published[r]) THEN Finishes(r, "failed") /\ UNCHANGED disturbed
     ELSE GoTo(r, "next") /\ Looks(r) /\ UNCHANGED <<status, mutation>>
  /\ UNCHANGED <<requests, registry, canceled, done, published, digest, survivors, last, replaced, unsure>>

NextEntry(r) == requests[r].puts[done[r] + 1]
NothingLeft(r) == done[r] = Len(requests[r].puts)
\* Head: the tag is still what an earlier attempt put there.
IsThere(r) == published[r][NextEntry(r).tag] # None /\ tags[NextEntry(r).tag] = published[r][NextEntry(r).tag]

\* The loop of uploadArchiveEntries: what is there already is not written
\* again, if the registry says so.
NextPut(r) ==
  /\ pc[r] = "next"
  /\ IF NothingLeft(r) THEN Finishes(r, "success") /\ UNCHANGED done
     ELSE IF canceled[r] /\ Kind(r) # "pull" THEN Finishes(r, "canceled") /\ UNCHANGED done
     ELSE /\ \/ IsThere(r) /\ done' = [done EXCEPT ![r] = @ + 1] /\ UNCHANGED pc
             \/ GoTo(r, "write") /\ UNCHANGED done
          /\ UNCHANGED <<status, mutation>>
  /\ UNCHANGED <<requests, registry, canceled, published, digest, survivors, history>>

PutsTag(r) ==
  LET p == NextEntry(r) IN
  /\ Writes(r, p.tag, p.manifest)
  /\ replaced' = [replaced EXCEPT ![r] =
       IF tags[p.tag] \in {None, p.manifest} THEN @
       ELSE @ \cup {[by |-> last[p.tag], since |-> p.tag \in disturbed[r]]}]

WriteTag(r) ==
  LET p == NextEntry(r) IN
  /\ pc[r] = "write" /\ ~canceled[r]
  /\ PutsTag(r)
  /\ done' = [done EXCEPT ![r] = @ + 1]
  /\ published' = IF Kind(r) = "pull" THEN published ELSE [published EXCEPT ![r][p.tag] = p.manifest]
  /\ GoTo(r, "next")
  /\ UNCHANGED <<requests, canceled, status, mutation, digest, survivors, unsure>>

WriteTagFails(r) ==
  /\ pc[r] = "write"
  /\ \/ Idles /\ UNCHANGED <<replaced, unsure>>
     \/ PutsTag(r) /\ unsure' = [unsure EXCEPT ![r] = TRUE]
  /\ Finishes(r, "failed")
  /\ UNCHANGED <<requests, canceled, done, published, digest, survivors>>

(***************************************************************************)
(* Changes of tags.                                                        *)
(***************************************************************************)
\* StartImageTagChanges; DeleteDockerImages, one call at a time.
AskChange(r) ==
  /\ pc[r] = "asked" /\ ~Imports(r)
  /\ IsCall(r) => \A s \in Requests : IsCall(s) => ~AtWork(s)
  /\ GoTo(r, IF IsCall(r) THEN "resolve" ELSE "queued")
  /\ UNCHANGED <<requests, registry, canceled, status, mutation, done, published, digest, survivors, history>>

\* The redaction of an error keeps its words only: a canceled change of tags
\* ends as a failed one.
ChangeFails(r) == Ends(r, "failed")

\* tagRegistryImage reads what the source is; a deletion looks whether it
\* still is what the window showed.
Read(r) ==
  LET m == tags[requests[r].source] IN
  /\ pc[r] \in {"read", "resolve"} /\ ~canceled[r]
  /\ IF m = None \/ (IsCall(r) /\ m # digest[r]) THEN ChangeFails(r) /\ UNCHANGED digest
     ELSE /\ digest' = [digest EXCEPT ![r] = m]
          /\ GoTo(r, CASE Kind(r) = "copy" -> "put" [] Kind(r) = "deleteAll" -> "delete"
                       [] pc[r] = "resolve" /\ Kind(r) = "delete" -> "read" [] OTHER -> "list")
          /\ UNCHANGED status
  /\ Looks(r)
  /\ UNCHANGED <<requests, registry, canceled, mutation, done, published, survivors, last, replaced, unsure>>

\* registrySurvivingTags.
Survivors(r) == {x \in Tags \ {requests[r].source, requests[r].target} : tags[x] = digest[r]}
List(r) ==
  /\ pc[r] = "list" /\ ~canceled[r]
  /\ survivors' = [survivors EXCEPT ![r] = Survivors(r)]
  /\ GoTo(r, "delete")
  /\ UNCHANGED <<requests, registry, canceled, status, mutation, done, published, digest, history>>

Delete(r) ==
  /\ pc[r] = "delete" /\ ~canceled[r]
  /\ DeletesManifest(r, digest[r])
  /\ IF Kind(r) = "deleteAll" THEN Ends(r, "success")
     ELSE GoTo(r, IF Kind(r) = "rename" THEN "put" ELSE "restore") /\ UNCHANGED status
  /\ UNCHANGED <<requests, canceled, mutation, done, published, digest, survivors, replaced, unsure>>

PutTarget(r) ==
  /\ pc[r] = "put" /\ ~canceled[r]
  /\ Writes(r, requests[r].target, digest[r])
  /\ IF Kind(r) = "rename" THEN GoTo(r, "restore") /\ UNCHANGED status ELSE Ends(r, "success")
  /\ UNCHANGED <<requests, canceled, mutation, done, published, digest, survivors, replaced, unsure>>

\* The survivors, in any order: it is the registry's.
Restore(r) ==
  /\ pc[r] = "restore"
  /\ \/ survivors[r] = {} /\ Ends(r, "success") /\ Idles /\ UNCHANGED survivors
     \/ \E x \in survivors[r] :
          /\ ~canceled[r]
          /\ Writes(r, x, digest[r])
          /\ survivors' = [survivors EXCEPT ![r] = @ \ {x}]
          /\ UNCHANGED <<pc, status>>
  /\ UNCHANGED <<requests, canceled, mutation, done, published, digest, replaced, unsure>>

\* Any of these fails, because it was canceled, too; without going on.
OperationFails(r) ==
  /\ \/ pc[r] \in {"read", "resolve", "list", "delete", "put"} /\ Idles
     \/ pc[r] = "restore" /\ survivors[r] # {} /\ Idles
     \/ pc[r] = "delete" /\ DeletesManifest(r, digest[r])
     \/ pc[r] = "put" /\ Writes(r, requests[r].target, digest[r])
     \/ pc[r] = "restore" /\ \E x \in survivors[r] : Writes(r, x, digest[r])
  /\ ChangeFails(r)
  /\ UNCHANGED <<requests, canceled, mutation, done, published, digest, survivors, replaced, unsure>>

(***************************************************************************)
(* All of them.                                                            *)
(***************************************************************************)
Begin(r) ==
  /\ pc[r] = "queued"
  /\ GoTo(r, IF Imports(r) THEN "acquire" ELSE "read")
  /\ UNCHANGED <<requests, registry, canceled, status, mutation, done, published, digest, survivors, history>>

\* While it waits for a slot or for the semaphore.
CanceledInTime(r) ==
  /\ pc[r] \in {"queued", "acquire"} /\ canceled[r]
  /\ Ends(r, "canceled")
  /\ UNCHANGED <<requests, registry, canceled, mutation, done, published, digest, survivors, history>>

\* The archive, the other registry or the check cannot be read.
TransferFails(r) ==
  /\ pc[r] \in {"acquire", "check"} \/ (pc[r] = "next" /\ Kind(r) = "pull" /\ ~NothingLeft(r))
  /\ Finishes(r, "failed")
  /\ UNCHANGED <<requests, registry, canceled, done, published, digest, survivors, history>>

Cancel(r) ==
  /\ AtWork(r) /\ ~IsCall(r) /\ ~canceled[r]
  /\ canceled' = [canceled EXCEPT ![r] = TRUE]
  /\ UNCHANGED <<requests, registry, pc, status, mutation, done, published, digest, survivors, history>>

\* shutdown cancels the context of every task and call and waits until the
\* tasks have ended; nothing is asked for any more.
Shutdown ==
  /\ \E r \in Requests : AtWork(r) /\ ~canceled[r]
  /\ canceled' = [r \in Requests |-> canceled[r] \/ AtWork(r)]
  /\ pc' = [r \in Requests |-> IF pc[r] = "asked" THEN "quit" ELSE pc[r]]
  /\ UNCHANGED <<requests, registry, status, mutation, done, published, digest, survivors, history>>

\* The process is stopped by force, or a call is cut off at the end.
Killed ==
  /\ \E r \in Requests : AtWork(r)
  /\ pc' = [r \in Requests |-> IF pc[r] \in {"refused", "left"} THEN pc[r] ELSE "quit"]
  /\ mutation' = Nobody
  /\ UNCHANGED <<requests, registry, canceled, status, done, published, digest, survivors, history>>

Next ==
  \/ \E r \in Requests :
       \/ Ask(r) \/ AskChange(r) \/ Begin(r) \/ CanceledInTime(r) \/ Cancel(r)
       \/ Acquire(r) \/ Check(r) \/ NextPut(r) \/ WriteTag(r) \/ WriteTagFails(r) \/ TransferFails(r)
       \/ Read(r) \/ List(r) \/ Delete(r) \/ PutTarget(r) \/ Restore(r) \/ OperationFails(r)
  \/ Shutdown \/ Killed

Spec == Init /\ [][Next]_vars

-----------------------------------------------------------------------------
\* The variables have the values the code gives them.
TypeOK ==
  /\ tags \in [Tags -> manifests \cup {None}] /\ manifests \subseteq Manifests
  /\ pc \in [Requests -> {"asked", "refused", "queued", "acquire", "check", "next", "write",
                          "resolve", "read", "list", "delete", "put", "restore", "left", "quit"}]
  /\ status \in [Requests -> {"active", "success", "failed", "canceled"}]
  /\ mutation \in Requests \cup {Nobody}
  /\ \A r \in Requests : Imports(r) => done[r] \in 0..Len(requests[r].puts)
  /\ published \in [Requests -> [Tags -> Manifests \cup {None}]]
  /\ digest \in [Requests -> Manifests \cup {None}] /\ survivors \in [Requests -> SUBSET Tags]

\* A tag that is gone was the source of a change that removed it, or one of
\* all the tags of a manifest that was to go.
Meant(x) == Kind(last[x]) = "deleteAll" \/ (~Imports(last[x]) /\ requests[last[x]].source = x)
Gone == {x \in Tags : tags[x] = None /\ last[x] # Nobody}

\* imageoperations.go 171-172, 281-282, imageimport.go 650: a tag nobody meant
\* to remove is missing only while a rename or a deletion is at work, when it
\* has not succeeded, or when others have changed tags since it looked; and an
\* import replaces no tag but one a change of tags has put there since it looked.
LossIsAnnounced ==
  /\ \A x \in Gone : Meant(x) \/ status[last[x]] # "success" \/ disturbed[last[x]] # {}
  /\ \A r \in Requests : \A e \in replaced[r] : e.since /\ ~Imports(e.by)

\* What reports success has put each tag where it belongs, unless others have
\* changed that tag since it looked.
Is(r, x, m) == tags[x] = m \/ x \in disturbed[r]
Delivered(r) ==
  status[r] = "success" =>
    IF Imports(r)
    THEN \A i \in DOMAIN requests[r].puts : Is(r, requests[r].puts[i].tag, requests[r].puts[i].manifest)
    ELSE /\ Kind(r) \in {"copy", "rename"} => Is(r, requests[r].target, digest[r])
         /\ Kind(r) # "copy" => Is(r, requests[r].source, None)

\* A retry is not refused because of what the first attempt has put there,
\* unless that could not know that it had (imageimport.go 832-843).
Retryable(r) ==
  pc[r] = "refused" /\ Kind(r) = "retry" =>
    unsure[requests[r].of] \/ ImportTargets(r) \cap disturbed[requests[r].of] # {}

\* The two, and the semaphore is not kept by what is over.
DeliveredWhenDone ==
  /\ \A r \in Requests : Delivered(r) /\ Retryable(r)
  /\ mutation # Nobody => AtWork(mutation)

\* When all changes of tags have succeeded, only their sources are gone
\* (imageoperations.go:171-172).
OnlySourceIsRemoved == (\A r \in Requests : status[r] = "success") => \A x \in Gone : Meant(x)
=============================================================================
