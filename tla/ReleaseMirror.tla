---------------------------- MODULE ReleaseMirror ----------------------------
(***************************************************************************)
(* The update API: the mirror of the GitHub releases (mirror/runner.go,    *)
(* download.go, state.go), the publication of a release into the object    *)
(* store (publish/publish.go, cosstore/client.go) and the manifest that    *)
(* the service answers from (service/service.go).                          *)
(*                                                                         *)
(* The mirror is a oneshot that a timer starts; an operator may publish or *)
(* repair a release at the same time with cmd/publish.  A step is one      *)
(* request to GitHub or to the store; a request may fail, also after the   *)
(* store has done what it was asked for, and a process may be killed       *)
(* between any two of them.                                                *)
(***************************************************************************)
EXTENDS Integers, FiniteSets

CONSTANTS
  MaxTag,        \* bound of the releases; the tags are ordered like numbers
  MaxVersions,   \* bound of the changes of a release at GitHub
  MaxFaults     \* bound of the requests that fail and the processes that are killed

ASSUME ReleaseAssumption ==
  MaxTag \in Nat \ {0} /\ MaxVersions \in Nat /\ MaxFaults \in Nat

VARIABLES
  github,    \* the latest release, the editions of the assets, and the ETag
  objects,   \* the store's releases/TAG/ objects
  pointer,   \* the store's channels/stable/latest.json
  publisher, \* the running Publish of each process
  mirror,    \* Runner.Run
  partial,   \* the resumable part of the executable
  state,     \* the mirror's state file
  served,    \* Service.cache
  faults    \* how many of them may still occur

releaseVars == <<github, objects, pointer, publisher, mirror, partial, state, served, faults>>

Tags == 1..MaxTag
Publishers == {"mirror", "operator"}

\* An asset's content is its edition.  The checksum and the fallback manifest are
\* those of one executable; they count as one asset.
AssetNames == {"exe", "sum", "log"}
Missing == 0
Nothing == [tag |-> 0, exe |-> Missing]
NoState == [tag |-> 0, exe |-> Missing, etag |-> 0]
NoPart == [tag |-> 0, exe |-> Missing]
FirstEdition == [name \in AssetNames |-> 1]
Unpublished == [name \in AssetNames \cup {"manifest"} |-> Missing]
NoPublication == [at |-> "idle", tag |-> 0, assets |-> FirstEdition, prior |-> Nothing]
NoRun == [at |-> "idle", dry |-> FALSE, prior |-> NoState, tag |-> 0,
          assets |-> FirstEdition, etag |-> 0, fetched |-> {}]

MirrorInit ==
  /\ github = [latest |-> 1, assets |-> [t \in Tags |-> FirstEdition], version |-> 1]
  /\ objects = [t \in Tags |-> Unpublished]
  /\ pointer = Nothing
  /\ publisher = [p \in Publishers |-> NoPublication]
  /\ mirror = NoRun /\ partial = NoPart /\ state = NoState
  /\ served = Nothing
  /\ faults = MaxFaults

Fault == faults > 0 /\ faults' = faults - 1

-----------------------------------------------------------------------------
(***************************************************************************)
(* GitHub: a release, or an asset that is uploaded again, under a new ID;  *)
(* the answer's ETag changes.                                              *)
(***************************************************************************)
Change(g) ==
  /\ github.version < MaxVersions
  /\ github' = [g EXCEPT !.version = @ + 1]
  /\ UNCHANGED <<objects, pointer, publisher, mirror, partial, state, served, faults>>

NewRelease == github.latest < MaxTag /\ Change([github EXCEPT !.latest = @ + 1])
UploadAgain(name) == Change([github EXCEPT !.assets[github.latest][name] = @ + 1])

-----------------------------------------------------------------------------
(***************************************************************************)
(* Publish.  validateChecksumBytes accepts the executable first.  The      *)
(* manifest of a release names its executable.                             *)
(***************************************************************************)
Following(at) ==
  CASE at = "exe" -> "sum" [] at = "sum" -> "log" [] at = "log" -> "manifest" [] at = "manifest" -> "prior"

Intended(p, name) == publisher[p].assets[IF name = "manifest" THEN "exe" ELSE name]

\* The operator's command ends with Publish; the mirror looks at its outcome.
Goes(p, at) ==
  publisher' = IF p = "operator" /\ at \in {"done", "failed"}
               THEN [publisher EXCEPT ![p] = NoPublication]
               ELSE [publisher EXCEPT ![p].at = at]

Begin(p, tag, assets) ==
  publisher' = [publisher EXCEPT ![p] = [NoPublication EXCEPT !.at = "exe", !.tag = tag, !.assets = assets]]

OperatorPublishes(tag) ==
  /\ publisher["operator"].at = "idle" /\ tag <= github.latest
  /\ github.assets[tag].exe = github.assets[tag].sum
  /\ Begin("operator", tag, github.assets[tag])
  /\ UNCHANGED <<github, objects, pointer, mirror, partial, state, served, faults>>

\* Mutant of SameObject: an object that exists is taken for the release's.
AnyObject(p, name, found) == TRUE

\* verifyObject, verifyManifestObject.
SameObject(p, name, found) == found = Intended(p, name)

\* publishImmutable and publishImmutableManifest.  An immutable object that exists
\* stays, so it does not matter whether Head or PutImmutable has met it.
PublishObject(p) ==
  LET name == publisher[p].at
      tag == publisher[p].tag
      found == objects[tag][name]
  IN /\ name \in {"exe", "sum", "log", "manifest"}
     /\ objects' = IF found = Missing THEN [objects EXCEPT ![tag][name] = Intended(p, name)]
                   ELSE objects
     /\ Goes(p, IF found = Missing \/ SameObject(p, name, found) THEN Following(name) ELSE "failed")
     /\ UNCHANGED <<github, pointer, mirror, partial, state, served, faults>>

\* A request failed, before or after the object was created.
PublishObjectFails(p) ==
  LET name == publisher[p].at
      tag == publisher[p].tag
  IN /\ name \in {"exe", "sum", "log", "manifest"} /\ Fault
     /\ \/ UNCHANGED objects
        \/ objects[tag][name] = Missing /\ objects' = [objects EXCEPT ![tag][name] = Intended(p, name)]
     /\ Goes(p, "failed")
     /\ UNCHANGED <<github, pointer, mirror, partial, state, served>>

\* readPriorPointer and compareTags.
ReadPriorPointer(p) ==
  /\ publisher[p].at = "prior"
  /\ IF pointer.tag < publisher[p].tag
     THEN publisher' = [publisher EXCEPT ![p].at = "put", ![p].prior = pointer]
     ELSE Goes(p, "done")
  /\ UNCHANGED <<github, objects, pointer, mirror, partial, state, served, faults>>

ReadPriorPointerFails(p) ==
  /\ publisher[p].at = "prior" /\ Fault
  /\ Goes(p, "failed")
  /\ UNCHANGED <<github, objects, pointer, mirror, partial, state, served>>

Manifest(p) == [tag |-> publisher[p].tag, exe |-> publisher[p].assets.exe]

PutPointer(p) ==
  /\ publisher[p].at = "put"
  /\ pointer' = Manifest(p)
  /\ Goes(p, "readback")
  /\ UNCHANGED <<github, objects, mirror, partial, state, served, faults>>

\* recoverPriorPointer gives up without a prior pointer.
Recovery(p) == IF publisher[p].prior = Nothing THEN "failed" ELSE "restore"

PutPointerFails(p) ==
  /\ publisher[p].at = "put" /\ Fault
  /\ pointer' \in {pointer, Manifest(p)}
  /\ Goes(p, Recovery(p))
  /\ UNCHANGED <<github, objects, mirror, partial, state, served>>

\* verifyPointerReadback.
ReadBack(p) ==
  /\ publisher[p].at = "readback"
  /\ Goes(p, IF pointer = Manifest(p) THEN "done" ELSE Recovery(p))
  /\ UNCHANGED <<github, objects, pointer, mirror, partial, state, served, faults>>

ReadBackFails(p) ==
  /\ publisher[p].at = "readback" /\ Fault
  /\ Goes(p, Recovery(p))
  /\ UNCHANGED <<github, objects, pointer, mirror, partial, state, served>>

\* recoverPriorPointer: Publish fails whether the prior pointer is back or not.
RestorePriorPointer(p) ==
  /\ publisher[p].at = "restore"
  /\ pointer' = publisher[p].prior
  /\ Goes(p, "failed")
  /\ UNCHANGED <<github, objects, mirror, partial, state, served, faults>>

RestorePriorPointerFails(p) ==
  /\ publisher[p].at = "restore" /\ Fault
  /\ pointer' \in {pointer, publisher[p].prior}
  /\ Goes(p, "failed")
  /\ UNCHANGED <<github, objects, mirror, partial, state, served>>

-----------------------------------------------------------------------------
(***************************************************************************)
(* Runner.Run                                                              *)
(***************************************************************************)
\* A state that cannot be read counts as none.
MirrorStarts(dry) ==
  /\ mirror.at = "idle"
  /\ \/ mirror' = [NoRun EXCEPT !.at = "discover", !.dry = dry, !.prior = state] /\ UNCHANGED faults
     \/ /\ state # NoState /\ Fault
        /\ mirror' = [NoRun EXCEPT !.at = "discover", !.dry = dry]
  /\ UNCHANGED <<github, objects, pointer, publisher, partial, state, served>>

\* Of the candidate that the conditional request finds.
Known(prior, candidate) ==
  prior.tag = candidate.latest /\ prior.exe = candidate.assets[candidate.latest].exe

Candidate ==
  [mirror EXCEPT !.tag = github.latest, !.assets = github.assets[github.latest],
                 !.etag = github.version, !.at = "exe"]

\* Latest: not modified, known already under another ETag, or a release to fetch.
Discover ==
  /\ mirror.at = "discover"
  /\ mirror' = IF mirror.prior.etag = github.version \/ (Known(mirror.prior, github) /\ mirror.dry) THEN NoRun
               ELSE IF Known(mirror.prior, github) THEN [Candidate EXCEPT !.at = "save"] ELSE Candidate
  /\ UNCHANGED <<github, objects, pointer, publisher, partial, state, served, faults>>

\* The asset's URL has the ID of the edition that was discovered.
Available(name) == github.assets[mirror.tag][name] = mirror.assets[name]
Part == [tag |-> mirror.tag, exe |-> mirror.assets.exe]

\* loadPartial and downloadOnce: the editions that a completed executable is of.
Resumed == IF partial = Part THEN {partial.exe, mirror.assets.exe} ELSE {mirror.assets.exe}

AfterDownload == CASE mirror.at = "exe" -> "sum" [] mirror.at = "sum" -> "log" [] mirror.at = "log" -> "validate"

Fetch ==
  /\ mirror.at \in AssetNames /\ Available(mirror.at)
  /\ mirror' = [mirror EXCEPT !.at = AfterDownload,
                              !.fetched = IF mirror.at = "exe" THEN Resumed ELSE @]
  /\ partial' = IF mirror.at = "exe" THEN NoPart ELSE partial
  /\ UNCHANGED <<github, objects, pointer, publisher, state, served, faults>>

\* The response ends early, the last time that it is tried; or the asset is gone.
FetchFails ==
  /\ mirror.at \in AssetNames
  /\ \/ ~Available(mirror.at) /\ partial' = (IF mirror.at = "exe" THEN NoPart ELSE partial) /\ UNCHANGED faults
     \/ /\ Available(mirror.at) /\ Fault
        /\ partial' \in IF mirror.at = "exe" THEN {partial, Part} ELSE {partial}
  /\ mirror' = NoRun
  /\ UNCHANGED <<github, objects, pointer, publisher, state, served>>

\* The digest that GitHub declares, validateStrictChecksum, validateFallbackManifest.
Validated == mirror.fetched = {mirror.assets.exe} /\ mirror.assets.exe = mirror.assets.sum

Validate ==
  /\ mirror.at = "validate" /\ publisher["mirror"].at = "idle"
  /\ IF Validated /\ ~mirror.dry
     THEN Begin("mirror", mirror.tag, mirror.assets) /\ mirror' = [mirror EXCEPT !.at = "publish"]
     ELSE mirror' = NoRun /\ UNCHANGED publisher
  /\ UNCHANGED <<github, objects, pointer, partial, state, served, faults>>

\* Publish returned; the artifacts are removed, and that may fail.
Published ==
  /\ mirror.at = "publish" /\ publisher["mirror"].at \in {"done", "failed"}
  /\ publisher' = [publisher EXCEPT !["mirror"] = NoPublication]
  /\ \/ /\ mirror' = IF publisher["mirror"].at = "done" THEN [mirror EXCEPT !.at = "save"] ELSE NoRun
        /\ UNCHANGED faults
     \/ Fault /\ mirror' = NoRun
  /\ UNCHANGED <<github, objects, pointer, partial, state, served>>

NewState == [tag |-> mirror.tag, exe |-> mirror.assets.exe, etag |-> mirror.etag]

\* State.Save; its commit may be indeterminate.
SaveState ==
  /\ mirror.at = "save"
  /\ \/ state' = NewState /\ UNCHANGED faults
     \/ Fault /\ state' \in {state, NewState}
  /\ mirror' = NoRun
  /\ UNCHANGED <<github, objects, pointer, publisher, partial, served>>

DiscoverFails ==
  /\ mirror.at = "discover" /\ Fault
  /\ mirror' = NoRun
  /\ UNCHANGED <<github, objects, pointer, publisher, partial, state, served>>

\* The oneshot or the operator's command is killed, perhaps while it downloads.
Killed(p) ==
  /\ Fault
  /\ \/ publisher[p].at # "idle" \/ (p = "mirror" /\ mirror.at # "idle")
  /\ publisher' = [publisher EXCEPT ![p] = NoPublication]
  /\ mirror' = IF p = "mirror" THEN NoRun ELSE mirror
  /\ partial' \in IF p = "mirror" /\ mirror.at = "exe" THEN {partial, Part} ELSE {partial}
  /\ UNCHANGED <<github, objects, pointer, state, served>>

-----------------------------------------------------------------------------
\* Service.manifest, when the cached one is not fresh: a pointer that cannot be read
\* leaves the last valid one.
RefreshManifest ==
  /\ pointer # Nothing /\ served # pointer
  /\ served' = pointer
  /\ UNCHANGED <<github, objects, pointer, publisher, mirror, partial, state, faults>>

MirrorNext ==
  \/ NewRelease \/ \E name \in AssetNames : UploadAgain(name)
  \/ \E tag \in Tags : OperatorPublishes(tag)
  \/ \E p \in Publishers :
       \/ PublishObject(p) \/ PublishObjectFails(p) \/ ReadPriorPointer(p) \/ ReadPriorPointerFails(p)
       \/ PutPointer(p) \/ PutPointerFails(p) \/ ReadBack(p) \/ ReadBackFails(p)
       \/ RestorePriorPointer(p) \/ RestorePriorPointerFails(p) \/ Killed(p)
  \/ \E dry \in BOOLEAN : MirrorStarts(dry)
  \/ Discover \/ DiscoverFails \/ Fetch \/ FetchFails \/ Validate \/ Published \/ SaveState
  \/ RefreshManifest

MirrorSpec == MirrorInit /\ [][MirrorNext]_releaseVars

-----------------------------------------------------------------------------
\* Whatever names a release, the channel's pointer, the manifest that the service
\* answers with and the state that keeps the mirror from doing it again, names one
\* whose immutable objects are all there, with the executable that the manifest
\* promises and the checksum of that executable: also when two publishers bring
\* different editions of one tag, when an attempt broke off and left some of its
\* objects, and when the executable was fetched in pieces.
NamedReleasesAreComplete ==
  \A m \in {pointer, served, [tag |-> state.tag, exe |-> state.exe]} \ {Nothing} :
    /\ objects[m.tag].exe = m.exe /\ objects[m.tag].sum = m.exe
    /\ objects[m.tag].manifest = m.exe /\ objects[m.tag].log # Missing
=============================================================================
