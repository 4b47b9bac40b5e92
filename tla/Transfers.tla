------------------------------ MODULE Transfers ------------------------------
(***************************************************************************)
(* The sessions with hosts, what is copied and moved on a host, what is    *)
(* carried to it and back, exports of images, and the tags of a registry.  *)
(* They share no state as they are modelled, so they are put side by side: *)
(* in each behaviour one is used, and the others have no state, or stay as *)
(* they begin (the sessions).                                              *)
(***************************************************************************)
EXTENDS SshSessions, Sequences

CONSTANTS
  Trees, Targets, MaxItems, Guests,      \* RemoteTransfer
  Places, FilePlans,                     \* FileTransfer
  ExportPlans, MaxPath, MaxRuns,         \* ImageExports
  Tags, Manifests, Registries, TagPlans  \* RegistryTags

VARIABLES
  used,  \* "sessions", "host", "files", "exports" or "tags"
  \* RemoteTransfer.
  tree, job, jobPc, items, placed, before, guests,
  \* FileTransfer.
  plan, place, found, taskPc, canceled, temp, todo, pieces, firstErr, status, worker, alive, removed, put,
  \* ImageExports.
  exports, file, exportPc, path, partial, exportCanceled, failure, exportStatus, runs, quitting, exported,
  replacers,
  \* RegistryTags.
  requests, tags, manifests, requestPc, requestCanceled, requestStatus, mutation, done, published, digest,
  survivors, last, disturbed, replaced, unsure

-----------------------------------------------------------------------------
Host == INSTANCE RemoteTransfer WITH pc <- jobPc

Files == INSTANCE FileTransfer WITH Plans <- FilePlans, pc <- taskPc, before <- found

Exports == INSTANCE ImageExports WITH
  Plans <- ExportPlans, plan <- exports, pc <- exportPc, canceled <- exportCanceled, status <- exportStatus,
  put <- exported

Registry == INSTANCE RegistryTags WITH
  Plans <- TagPlans, pc <- requestPc, canceled <- requestCanceled, status <- requestStatus

\* The assumptions of the four on their constants.
TransfersAssumption ==
  /\ Host!MaxItemsAssumption /\ Host!TreesAssumption
  /\ Files!PlansAssumption /\ Files!NoneAssumption
  /\ Exports!ImageExportsAssumption
  /\ Registry!RegistryTagsAssumption

hostVars == <<tree, job, jobPc, items, placed, before, guests>>
fileVars == <<plan, place, found, taskPc, canceled, temp, todo, pieces, firstErr, status, worker, alive, removed, put>>
exportVars == <<exports, file, exportPc, path, partial, exportCanceled, failure, exportStatus, runs, quitting, exported,
               replacers>>
tagVars == <<requests, tags, manifests, requestPc, requestCanceled, requestStatus, mutation, done, published, digest,
            survivors, last, disturbed, replaced, unsure>>
allVars == <<used, vars, hostVars, fileVars, exportVars, tagVars>>

NoHost ==
  /\ tree = None /\ job = None /\ jobPc = None /\ items = None /\ placed = None /\ before = None /\ guests = None
NoFiles ==
  /\ plan = None /\ place = None /\ found = None /\ taskPc = None /\ canceled = None /\ temp = None /\ todo = None
  /\ pieces = None /\ firstErr = None /\ status = None /\ worker = None /\ alive = None /\ removed = None /\ put = None
NoExports ==
  /\ exports = None /\ file = None /\ exportPc = None /\ path = None /\ partial = None /\ exportCanceled = None
  /\ failure = None /\ exportStatus = None /\ runs = None /\ quitting = None /\ exported = None /\ replacers = None
NoTags ==
  /\ requests = None /\ tags = None /\ manifests = None /\ requestPc = None /\ requestCanceled = None
  /\ requestStatus = None /\ mutation = None /\ done = None /\ published = None /\ digest = None
  /\ survivors = None /\ last = None /\ disturbed = None /\ replaced = None /\ unsure = None

AllInit ==
  /\ Init
  /\ \/ used = "sessions" /\ NoHost /\ NoFiles /\ NoExports /\ NoTags
     \/ used = "host" /\ Host!Init /\ NoFiles /\ NoExports /\ NoTags
     \/ used = "files" /\ Files!Init /\ NoHost /\ NoExports /\ NoTags
     \/ used = "exports" /\ Exports!Init /\ NoHost /\ NoFiles /\ NoTags
     \/ used = "tags" /\ Registry!Init /\ NoHost /\ NoFiles /\ NoExports

AllNext ==
  \/ used = "sessions" /\ Next /\ UNCHANGED <<used, hostVars, fileVars, exportVars, tagVars>>
  \/ used = "host" /\ Host!Next /\ UNCHANGED <<used, vars, fileVars, exportVars, tagVars>>
  \/ used = "files" /\ Files!Next /\ UNCHANGED <<used, vars, hostVars, exportVars, tagVars>>
  \/ used = "exports" /\ Exports!Next /\ UNCHANGED <<used, vars, hostVars, fileVars, tagVars>>
  \/ used = "tags" /\ Registry!Next /\ UNCHANGED <<used, vars, hostVars, fileVars, exportVars>>

AllSpec == AllInit /\ [][AllNext]_allVars

\* The variables of the four have the values the code gives them.
TransfersOK ==
  CASE used = "sessions" -> TRUE
    [] used = "host" -> Host!TypeOK
    [] used = "files" -> Files!TypeOK
    [] used = "exports" -> Exports!TypeOK
    [] used = "tags" -> Registry!TypeOK

\* sshfileoperations.go, sshfileupload.go, sshfiledownload.go,
\* imageexport.go, imageimport.go, imageoperations.go: wherever it fails or
\* is stopped, nothing is lost or replaced by a part of something else, but
\* what the user agreed to overwrite or to remove, as long as the changes of
\* tags do not cross.
LossIsAnnounced ==
  CASE used = "sessions" -> TRUE
    [] used = "host" -> Host!LossIsAnnounced
    [] used = "files" -> Files!LossIsAnnounced
    [] used = "exports" -> Exports!LossIsAnnounced
    [] used = "tags" -> Registry!LossIsAnnounced

\* The same files: what reports success has put everything, complete, where
\* it belongs; and what is over, or was canceled, leaves nothing behind.
DeliveredWhenDone ==
  CASE used = "sessions" -> TRUE
    [] used = "host" -> Host!DeliveredWhenDone
    [] used = "files" -> Files!DeliveredWhenDone
    [] used = "exports" -> Exports!DeliveredWhenDone
    [] used = "tags" -> Registry!DeliveredWhenDone
==============================================================================
