--------------------------- MODULE RemoteTransfer ---------------------------
(***************************************************************************)
(* sshfileoperations.go: copying and moving items on the remote host, with *)
(* the conflict policies ask, overwrite and keep-both.                     *)
(*                                                                         *)
(* A request is checked as a whole, then its items are handled one after   *)
(* the other, each by up to two remote steps: removing what stands at the  *)
(* destination, and running cp or mv.  A step may fail half way (the       *)
(* connection breaks, the task is cancelled or its deadline passes, the    *)
(* disk is full), and somebody else may create entries on the host between *)
(* any two steps: what was checked may be stale when it is used.           *)
(*                                                                         *)
(* A path is a sequence of names, a name a sequence that starts with a     *)
(* base name; keep-both appends the number of the attempt to it.  The file *)
(* tree maps each existing path to "dir", "link" or the content of a file. *)
(***************************************************************************)
EXTENDS Integers, FiniteSets, Sequences, SequencesExt

CONSTANTS Trees,      \* the trees to start from, with distinct contents
          Targets,    \* the target directories that may be asked for
          MaxItems,   \* bound on the items of a request
          Guests      \* the paths somebody else may create

MaxItemsAssumption == MaxItems \in Nat \ {0}

\* Paths are sequences of names, names are sequences, and what is above an
\* entry of a tree is a directory.
GivenPaths == (UNION {DOMAIN t : t \in Trees}) \cup Targets \cup Guests
GivenNames == UNION {{p[n] : n \in DOMAIN p} : p \in GivenPaths}
TreesAssumption ==
  /\ GivenPaths \subseteq Seq(GivenNames)
  /\ \A x \in GivenNames : Len(x) \in Nat /\ x = [n \in 1..Len(x) |-> x[n]]
  /\ \A t \in Trees :
       /\ IsFiniteSet(DOMAIN t)
       /\ \A p \in DOMAIN t : \A q \in Prefixes(p) \ {p} : q \in DOMAIN t /\ t[q] = "dir"

Operations == {"copy", "move"}
Policies   == {"ask", "overwrite", "keep-both"}

VARIABLES
  tree,     \* the remote file tree
  job,      \* the request: operation, policy, sources and target
  pc,       \* where operateRemoteFilesWithConnection is
  items,    \* what prepareRemoteTransfers returned
  placed,   \* the destinations of the items begun so far
  before,   \* history: the tree the request found
  guests    \* history: the paths somebody else has created

vars == <<tree, job, pc, items, placed, before, guests>>

Ended == {"done", "conflict", "failed"}

-----------------------------------------------------------------------------
(* The tree. *)

\* remotePathContains: at or below the parent; the root does not count as
\* being inside itself.
IsInside(parent, child) ==
  IF parent = <<>> THEN child # <<>> ELSE IsPrefix(parent, child)

Exists(t, p)  == p \in DOMAIN t
IsDir(t, p)   == Exists(t, p) /\ t[p] = "dir"
Subtree(t, p) == {q \in DOMAIN t : IsPrefix(p, q)}
Contents(t)   == {t[p] : p \in DOMAIN t} \ {"dir"}

\* The path that is to `to` what q is to `from`.
Rebase(q, from, to) == to \o SubSeq(q, Len(from) + 1, Len(q))

Without(t, ps) == [p \in DOMAIN t \ ps |-> t[p]]

\* The part ps of the tree below `from`, written below `to`.
Written(t, ps, from, to) ==
  [p \in DOMAIN t \cup {Rebase(q, from, to) : q \in ps} |->
     LET q == Rebase(p, to, from) IN
     IF IsPrefix(to, p) /\ q \in ps THEN t[q] ELSE t[p]]

\* What a copy, or a removal, may have dealt with when it is interrupted:
\* parents come before their children, or after them.
Beginnings(t, p) ==
  {ps \in SUBSET Subtree(t, p) : \A q \in ps : q = p \/ Front(q) \in ps}
Gone(t, p) ==
  {ps \in SUBSET Subtree(t, p) :
     \A q \in ps : \A r \in Subtree(t, q) : r \in ps}

\* ensureRemoteDirectory: MkdirAll creates every missing ancestor.  A form
\* that creates the directory alone would leave it without a parent.
EnsureDirectoryAlone(t, p) ==
  [q \in DOMAIN t \cup {p} |-> IF Exists(t, q) THEN t[q] ELSE "dir"]
EnsureDirectory(t, p) ==
  [q \in DOMAIN t \cup Prefixes(p) |-> IF Exists(t, q) THEN t[q] ELSE "dir"]
CanBeDirectory(t, p) == \A q \in Prefixes(p) : Exists(t, q) => IsDir(t, q)

-----------------------------------------------------------------------------
(* prepareRemoteTransfers *)

\* validateRemoteCopyPath refuses links anywhere below a source.
Acceptable(source) ==
  /\ source # <<>>
  /\ Exists(tree, source)
  /\ job.operation = "copy" => \A q \in Subtree(tree, source) : tree[q] # "link"
  /\ IsDir(tree, source) => ~IsInside(source, job.target)

Acceptances ==
  /\ \A n \in DOMAIN job.sources : Acceptable(job.sources[n])
  /\ CanBeDirectory(tree, job.target)

\* One item as the second loop leaves it.
PreparedItem(source) ==
  LET destination == Append(job.target, Last(source))
      noOp == job.operation = "move" /\ destination = source
  IN  [source |-> source, destination |-> destination, noOp |-> noOp,
       exists |-> ~noOp /\ Exists(tree, destination)]

Requests(t) ==
  {[operation |-> op, policy |-> policy, sources |-> s, target |-> target] :
     op \in Operations, policy \in Policies, target \in Targets,
     s \in {q \in UNION {[1..n -> DOMAIN t] : n \in 1..MaxItems} :
              IsInjective(q)}}

Init ==
  /\ tree \in Trees
  /\ job \in Requests(tree)
  /\ pc = "validate"
  /\ items = <<>>
  /\ placed = <<>>
  /\ before = tree
  /\ guests = {}

Reject ==
  /\ pc = "validate"
  /\ ~Acceptances
  /\ pc' = "failed"
  /\ UNCHANGED <<tree, job, items, placed, before, guests>>

Validate ==
  /\ pc = "validate"
  /\ Acceptances
  /\ tree' = EnsureDirectory(tree, job.target)
  /\ pc' = "check"
  /\ UNCHANGED <<job, items, placed, before, guests>>

\* The existence of all destinations is read now, and used later.
Check ==
  LET prepared == [n \in DOMAIN job.sources |-> PreparedItem(job.sources[n])]
      conflict == \E n \in DOMAIN prepared : prepared[n].exists
  IN  /\ pc = "check"
      /\ items' = prepared
      /\ pc' = IF job.policy = "ask" /\ conflict THEN "conflict" ELSE "item"
      /\ UNCHANGED <<tree, job, placed, before, guests>>

-----------------------------------------------------------------------------
(* The loop over the items. *)

Item == items[Len(placed) + 1]       \* the item about to be begun
Current == items[Len(placed)]        \* the item begun last
Destination == Last(placed)
AfterItem(n) == IF n = Len(items) THEN "done" ELSE "item"

\* An item that stays where it is reserves nothing.
Reserved == {placed[n] : n \in {m \in DOMAIN placed : ~items[m].noOp}}

\* The first candidate name of keep-both that is free on the host and in
\* this request.
Candidate(attempt) == Append(job.target, Append(Last(Item.source), attempt))
Free(attempt) ==
  /\ Candidate(attempt) \notin Reserved
  /\ ~Exists(tree, Candidate(attempt))
FirstFree ==
  Candidate(CHOOSE a \in 0..(Cardinality(DOMAIN tree) + MaxItems) :
              Free(a) /\ \A b \in 0..(a - 1) : ~Free(b))

\* resolveRemoteTransferDestination; with the policy ask no item exists, or
\* the request has ended with a conflict.
ResolvedDestination ==
  IF Item.exists /\ job.policy = "keep-both" THEN FirstFree ELSE Item.destination

Replaces(item) == item.exists /\ job.policy = "overwrite"

SkipItem ==
  /\ pc = "item"
  /\ Item.noOp
  /\ placed' = Append(placed, Item.destination)
  /\ pc' = AfterItem(Len(placed) + 1)
  /\ UNCHANGED <<tree, job, items, before, guests>>

\* Two items for one destination, or a copy that would replace its source.
Impossible ==
  \/ ResolvedDestination \in Reserved
  \/ Replaces(Item) /\ job.operation = "copy" /\ ResolvedDestination = Item.source

Refuse ==
  /\ pc = "item"
  /\ ~Item.noOp
  /\ Impossible
  /\ pc' = "failed"
  /\ UNCHANGED <<tree, job, items, placed, before, guests>>

BeginItem ==
  /\ pc = "item"
  /\ ~Item.noOp
  /\ ~Impossible
  /\ placed' = Append(placed, ResolvedDestination)
  /\ pc' = IF Replaces(Item) THEN "remove" ELSE "command"
  /\ UNCHANGED <<tree, job, items, before, guests>>

\* client.RemoveAll(destination)
RemoveDestination ==
  /\ pc = "remove"
  /\ tree' = Without(tree, Subtree(tree, Destination))
  /\ pc' = "command"
  /\ UNCHANGED <<job, items, placed, before, guests>>

RemoveFails ==
  /\ pc = "remove"
  /\ \E ps \in Gone(tree, Destination) : tree' = Without(tree, ps)
  /\ pc' = "failed"
  /\ UNCHANGED <<job, items, placed, before, guests>>

\* cp -a and mv put the source inside a destination that is a directory.
Landing ==
  IF IsDir(tree, Destination) THEN Append(Destination, Last(Current.source))
  ELSE Destination

\* What makes the commands refuse at once: the source is gone, or meets an
\* entry of the other kind, or itself; mv does not merge directories.
Runnable ==
  LET source == Current.source
      meets(q) == LET p == Rebase(q, source, Landing) IN
                  Exists(tree, p) =>
                    /\ IsDir(tree, p) <=> IsDir(tree, q)
                    /\ job.operation = "move" => ~IsDir(tree, p)
  IN  /\ Exists(tree, source)
      /\ IsDir(tree, Front(Landing))
      /\ ~IsPrefix(source, Landing)
      /\ \A q \in Subtree(tree, source) : meets(q)

CommandSucceeds ==
  LET source == Current.source
      copied == Written(tree, Subtree(tree, source), source, Landing)
  IN  /\ pc = "command"
      /\ Runnable
      /\ tree' = IF job.operation = "copy" THEN copied
                 ELSE Without(copied, Subtree(tree, source))
      /\ pc' = AfterItem(Len(placed))
      /\ UNCHANGED <<job, items, placed, before, guests>>

\* A command that fails has done nothing, or part of the copying, or (mv
\* between file systems) all the copying and part of the removing.
CommandFails ==
  LET source == Current.source
      all == Subtree(tree, source)
  IN  /\ pc = "command"
      /\ \/ tree' = tree
         \/ /\ Runnable
            /\ \E ps \in Beginnings(tree, source) :
                 tree' = Written(tree, ps, source, Landing)
         \/ /\ Runnable
            /\ job.operation = "move"
            /\ \E ps \in Gone(tree, source) :
                 tree' = Without(Written(tree, all, source, Landing), ps)
      /\ pc' = "failed"
      /\ UNCHANGED <<job, items, placed, before, guests>>

\* The connection breaks, or the context is done, between two steps.
Break ==
  /\ pc \in {"validate", "check", "item"}
  /\ pc' = "failed"
  /\ UNCHANGED <<tree, job, items, placed, before, guests>>

\* Somebody else, another task among them, creates an entry.
Guest(p) ==
  /\ pc \notin Ended
  /\ p \notin guests
  /\ ~Exists(tree, p)
  /\ IsDir(tree, Front(p))
  /\ \E node \in {"dir", "guest"} :
       tree' = [q \in DOMAIN tree \cup {p} |-> IF q = p THEN node ELSE tree[q]]
  /\ guests' = guests \cup {p}
  /\ UNCHANGED <<job, pc, items, placed, before>>

Next ==
  \/ Reject \/ Validate \/ Check
  \/ SkipItem \/ Refuse \/ BeginItem
  \/ RemoveDestination \/ RemoveFails
  \/ CommandSucceeds \/ CommandFails
  \/ Break
  \/ \E p \in Guests : Guest(p)

Spec == Init /\ [][Next]_vars

-----------------------------------------------------------------------------
\* The variables have their types, and the tree stays one: whatever failed,
\* every entry has a directory above it.
TypeOK ==
  /\ \A p \in DOMAIN tree : p = <<>> \/ IsDir(tree, Front(p))
  /\ job \in Requests(before)
  /\ pc \in {"validate", "check", "item", "remove", "command"} \cup Ended
  /\ Len(items) \in 0..MaxItems
  /\ Len(placed) <= Len(items)
  /\ guests \subseteq Guests

\* However the operation goes, and wherever it fails, what the host held
\* before is lost only below a destination that was found to exist and that
\* the user chose to overwrite.  Asking and keeping both lose nothing, even
\* when other entries appear after the check (sshfileoperations.go 153-176,
\* 215-234, 393-412).
LossIsAnnounced ==
  \A p \in DOMAIN before :
    before[p] = "dir" \/ before[p] \in Contents(tree)
      \/ \E n \in DOMAIN items :
           Replaces(items[n]) /\ IsPrefix(items[n].destination, p)

\* The request does not take one of its own sources from under itself: no
\* destination is above another source, and no moved item above another.
Independent ==
  \A m, n \in DOMAIN items :
    \/ IsPrefix(items[m].destination, items[n].source)
    \/ job.operation = "move" /\ IsPrefix(items[m].source, items[n].source)
    => m = n

\* An operation that reports success has put every item, complete and with
\* nothing added, at a place of its own, and a move has emptied the
\* sources.  (Only while nobody else writes there, and for requests that
\* are Independent: see the README for what happens to the others.)
DeliveredWhenDone ==
  pc = "done" /\ guests = {} /\ Independent =>
    \A n \in DOMAIN items :
      LET source == items[n].source
          stays  == items[n].noOp \/ job.operation = "copy"
      IN  /\ \A m \in DOMAIN items : placed[m] = placed[n] => m = n
          /\ Subtree(tree, placed[n]) =
               {Rebase(q, source, placed[n]) : q \in Subtree(before, source)}
          /\ \A q \in Subtree(before, source) :
               tree[Rebase(q, source, placed[n])] = before[q]
          /\ stays \/ Subtree(tree, source) = {}
=============================================================================
