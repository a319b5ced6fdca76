-------------------------------- MODULE Updater --------------------------------
(***************************************************************************)
(* The updates of the local program: auto_update.go, the installer of      *)
(* auto_update_windows.go and the store of the publishers' trust policies, *)
(* update_trust_store.go.                                                  *)
(*                                                                         *)
(* The panel downloads a release and keeps it as a pending executable with *)
(* a metadata file.  When the panel exits it starts that executable as the *)
(* installer, which waits for the panel's end and puts a copy of itself in *)
(* the place of the program.  Panel and installer can be killed after any  *)
(* file operation; Windows does not remove the file of a running program,  *)
(* and it may refuse to remove another one.                                *)
(***************************************************************************)
EXTENDS Integers, Sequences, FiniteSets

CONSTANTS
  MaxVersion,   \* bound of the releases
  Signers,      \* legal identities of publishers
  SignerOf,     \* the identity in a release's certificate
  RuleSets,     \* the rules of a policy that may follow: <<publisher, tag>>
  MaxEpoch,     \* bound of the trust policies
  MaxMishaps    \* bound of the crashes, failing operations and damaged files

ASSUME UpdaterAssumption ==
  /\ MaxVersion \in Nat \ {0} /\ MaxEpoch \in Nat \ {0} /\ MaxMishaps \in Nat
  /\ SignerOf \in [1..MaxVersion -> Signers] /\ RuleSets \subseteq SUBSET (Signers \X (1..MaxVersion))

VARIABLES
  releases,  \* the epoch of the policy that each release embeds
  policies,  \* the rules of each published policy
  expired,   \* the policies up to this epoch have expired
  accepted,  \* the epoch of the policy in the trust store's cache
  floor,     \* the enrollment floor: metadata without a schema is refused
  file,      \* what is at the program's path, at its .old and .new, and pending
  metadata,  \* pending-update.json
  marker,    \* the version of the installed-update marker
  panel,     \* the running panel
  installer, \* the running installer; bound: one at a time
  overlap,   \* a panel was started while an installer ran
  mishaps    \* how many of them may still occur

updateVars == <<releases, policies, expired, accepted, floor, file, metadata, marker, panel,
                installer, overlap, mishaps>>

Versions == 1..MaxVersion
None == 0
Torn == MaxVersion + 1
Paths == {"target", "old", "new", "pending"}

NoPolicy == [epoch |-> 0, mode |-> "unavailable"]
Contexts == [epoch : 0..MaxEpoch, mode : {"unavailable", "current", "fallback"}]
\* kind is "raw" for metadata without a schema; context is what it was verified in.
NoPending == [version |-> None, kind |-> "none", context |-> NoPolicy]
Off == [on |-> FALSE, version |-> None, image |-> "target", pending |-> NoPending, at |-> "idle",
        sweeping |-> FALSE]
NoInstaller == [at |-> "off", pending |-> NoPending]

\* The rules of a policy that authorizes every release.
Everything == {<<SignerOf[v], v>> : v \in Versions}

\* An earlier version may have left a download without a schema; the floor that the
\* migration of its metadata writes may be there already.
UpdateInit ==
  /\ releases = <<1>> /\ policies = <<Everything>> /\ expired = 0 /\ accepted = 0
  /\ \/ /\ metadata = NoPending /\ floor = FALSE
        /\ file = [p \in Paths |-> IF p = "target" THEN 1 ELSE None]
     \/ /\ metadata = [NoPending EXCEPT !.version = MaxVersion, !.kind = "raw"] /\ floor \in BOOLEAN
        /\ file = [p \in Paths |-> CASE p = "target" -> 1 [] p = "pending" -> MaxVersion [] OTHER -> None]
  /\ marker = None /\ panel = Off
  /\ installer = NoInstaller /\ overlap = FALSE
  /\ mishaps = MaxMishaps

Mishap == mishaps > 0 /\ mishaps' = mishaps - 1
world == <<releases, policies, expired, overlap>>

-----------------------------------------------------------------------------
(***************************************************************************)
(* What is published, and time                                             *)
(***************************************************************************)
Release ==
  /\ Len(releases) < MaxVersion
  /\ \E e \in 1..Len(policies) : releases' = Append(releases, e)
  /\ UNCHANGED <<policies, expired, overlap, accepted, floor, file, metadata, marker, panel, installer, mishaps>>

\* A policy that may no longer authorize some release, or name its publisher.
PublishPolicy ==
  /\ Len(policies) < MaxEpoch
  /\ \E rules \in RuleSets : policies' = Append(policies, rules)
  /\ UNCHANGED <<releases, expired, overlap, accepted, floor, file, metadata, marker, panel, installer, mishaps>>

Expires ==
  /\ expired < Len(policies) /\ expired' = expired + 1
  /\ UNCHANGED <<releases, policies, overlap, accepted, floor, file, metadata, marker, panel, installer, mishaps>>

-----------------------------------------------------------------------------
(***************************************************************************)
(* updateTrustStore.Resolve, of a program of a version; answer is the      *)
(* newest policy, still valid, that a source answers with.                 *)
(***************************************************************************)
Answers == {0} \cup {e \in 1..Len(policies) : e > expired}

FromCache(version) == accepted >= releases[version]

Selected(version, answer) ==
  LET base == IF FromCache(version) THEN accepted ELSE releases[version]
  IN IF answer > base THEN answer ELSE base

Resolved(version, answer) ==
  LET e == Selected(version, answer)
  IN CASE e > expired -> [epoch |-> e, mode |-> "current"]
       [] e <= expired /\ FromCache(version) -> [epoch |-> e, mode |-> "fallback"]
       [] OTHER -> NoPolicy

\* The policy that comes out of Resolve, and persistCache; failures counts one that
\* fails, before or after the new cache is in place.
Resolves(version, answer, context, failures) ==
  LET found == Resolved(version, answer)
      persisted == IF found.mode = "current" THEN found.epoch ELSE accepted
  IN \/ context = found /\ failures = 0 /\ accepted' = persisted
     \/ persisted # accepted /\ context = NoPolicy /\ failures = 1 /\ accepted' \in {accepted, persisted}

\* AuthorizeAt, of a policy in force: a rule names the publisher and the tag.
Authorizes(e, v) == <<SignerOf[v], v>> \in policies[e]

\* primaryStableLegalIdentities: the publishers that a policy names, for whichever tag.
NamesPublisher(e, signer) == \E tag \in Versions : <<signer, tag>> \in policies[e]

\* resolvedUpdateTrustPolicy.Authorize: an expired policy is asked for the publisher alone.
Accepts(context, v) ==
  IF context.mode = "current" THEN Authorizes(context.epoch, v) ELSE NamesPublisher(context.epoch, SignerOf[v])

\* Mutant of Trusted: the tag does not matter, expired or not.
TrustedBySigner(p, context) ==
  \/ p.kind = "legacy"
  \/ context # NoPolicy /\ context = p.context /\ NamesPublisher(context.epoch, SignerOf[p.version])

\* pendingUpdateVerifier: the context is the one of the download, and its policy
\* accepts the release.
Trusted(p, context) ==
  \/ p.kind = "legacy"
  \/ context # NoPolicy /\ context = p.context /\ Accepts(context, p.version)

\* verifyPendingExecutable: the bytes are the release's.
Verified(p, path, context) == file[path] = p.version /\ Trusted(p, context)

\* Resolve is called for a signed policy only.
Verification(p, version, answer, context, failures) ==
  IF p.kind = "signed" THEN Resolves(version, answer, context, failures)
  ELSE context = NoPolicy /\ failures = 0 /\ UNCHANGED accepted

-----------------------------------------------------------------------------
(***************************************************************************)
(* The files                                                               *)
(***************************************************************************)
Busy(path) ==
  /\ file[path] # None
  /\ (panel.on /\ panel.image = path) \/ (path = "pending" /\ installer.at # "off")

Removed(paths, kept) ==
  [p \in Paths |-> IF p \in paths \ kept /\ ~Busy(p) THEN None ELSE file[p]]

\* What Windows refuses to remove this time.
Refused == {{}} \cup {{a} : a \in {"pending", "old", "new", "metadata"}}
Mishaps(n) == n <= mishaps /\ mishaps' = mishaps - n

\* cleanupPendingUpdate.
Cleanup(kept) ==
  /\ file' = Removed({"pending", "old", "new"}, kept)
  /\ metadata' = IF "metadata" \in kept THEN metadata ELSE NoPending

\* cleanupPendingUpdateForRetry keeps the rest with a pending executable that stays.
CleanupForRetry(kept) ==
  IF "pending" \in kept \/ Busy("pending") THEN UNCHANGED <<file, metadata>> ELSE Cleanup(kept)

\* readPendingUpdateMetadata refuses metadata without a schema once there is a floor;
\* else it writes the floor and migrates.
Readable == metadata.kind # "none" /\ ~(metadata.kind = "raw" /\ floor)
Read == IF metadata.kind = "raw" THEN [metadata EXCEPT !.kind = "legacy"] ELSE metadata

-----------------------------------------------------------------------------
(***************************************************************************)
(* The panel                                                               *)
(***************************************************************************)
\* restorePendingUpdate, without the sources, and then ConsumeInstalledVersion.
StartPanel ==
  /\ ~panel.on /\ file["target"] \in Versions
  /\ LET version == file["target"]
         p == Read
     IN \E context \in Contexts, failures \in 0..1, kept \in Refused :
          /\ IF Readable /\ p.version > version
             THEN Verification(p, version, 0, context, failures)
             ELSE context = NoPolicy /\ failures = 0 /\ UNCHANGED accepted
          /\ floor' = (floor \/ Readable)
          /\ LET restored == Readable /\ p.version > version /\ Verified(p, "pending", context)
             IN /\ panel' = [Off EXCEPT !.on = TRUE, !.version = version, !.sweeping = marker = version,
                                        !.pending = IF restored THEN p ELSE NoPending]
                /\ IF restored \/ metadata.kind = "none"
                   THEN kept = {} /\ metadata' = Read /\ UNCHANGED file
                   ELSE Cleanup(kept)
          /\ Mishaps(failures + Cardinality(kept))
  /\ marker' = None
  /\ overlap' = (overlap \/ installer.at # "off")
  /\ UNCHANGED <<releases, policies, expired, installer>>

\* cleanupInstalledUpdateArtifacts: a goroutine that tries again while something stays.
Sweep ==
  /\ panel.on /\ panel.sweeping
  /\ \E kept \in Refused :
       /\ Cleanup(kept) /\ Mishaps(Cardinality(kept))
       /\ panel' = [panel EXCEPT !.sweeping =
                      kept # {} \/ \E p \in {"pending", "old", "new"} : Busy(p)]
  /\ UNCHANGED <<world, accepted, floor, marker, installer>>

\* What the sources answer, with the checksum of its executable.
Newest == Len(releases)

\* compareStableVersions.
IsNewer(version, current) == version > current

\* checkAndDownload of the newest release, up to the rename of downloadAssetVerified:
\* its bytes are verified before and after.  A download that fails leaves the old
\* pending executable or none.
Download ==
  /\ panel.on /\ panel.at = "idle" /\ panel.pending = NoPending
  /\ LET v == Newest
     IN /\ IsNewer(v, panel.version)
        /\ \E answer \in Answers, context \in Contexts, failures \in 0..1 :
             LET p == [version |-> v, kind |-> "signed", context |-> context]
             IN /\ Resolves(panel.version, answer, context, failures) /\ Mishaps(failures)
                /\ IF Trusted(p, context) /\ ~Busy("pending")
                   THEN /\ file' = [file EXCEPT !["pending"] = v]
                        /\ panel' = [panel EXCEPT !.at = "saving", !.pending = p]
                   ELSE UNCHANGED <<file, panel>>
  /\ UNCHANGED <<world, floor, metadata, marker, installer>>

DownloadFails ==
  /\ panel.on /\ panel.at = "idle" /\ panel.pending = NoPending
  /\ IsNewer(Newest, panel.version) /\ file["pending"] # None /\ ~Busy("pending")
  /\ Mishap /\ file' = [file EXCEPT !["pending"] = None]
  /\ UNCHANGED <<world, accepted, floor, metadata, marker, panel, installer>>

\* writePendingMetadata, with the floor first; when it fails the executable goes.
WritePendingMetadata ==
  /\ panel.on /\ panel.at = "saving"
  /\ floor' = TRUE
  /\ \/ /\ metadata' = panel.pending /\ panel' = [panel EXCEPT !.at = "idle"]
        /\ UNCHANGED <<file, mishaps>>
     \/ /\ Mishap /\ panel' = [panel EXCEPT !.at = "idle", !.pending = NoPending]
        /\ file' = Removed({"pending"}, {}) /\ UNCHANGED metadata
  /\ UNCHANGED <<world, accepted, marker, installer>>

\* InstallOnExit without a pending update, or the panel is killed.
Exit ==
  /\ panel.on
  /\ panel' = Off
  /\ IF panel.pending = NoPending THEN UNCHANGED mishaps ELSE Mishap
  /\ UNCHANGED <<world, accepted, floor, file, metadata, marker, installer>>

\* InstallOnExit, whose metadata is read and whose executable is verified again, and
\* launchUpdateInstaller.  Only the migrated metadata of an executable that cannot be
\* removed is kept for another time.
InstallOnExit ==
  /\ panel.on /\ panel.at = "idle" /\ panel.pending # NoPending /\ installer.at = "off"
  /\ floor' = (floor \/ Readable)
  /\ panel' = Off
  /\ \E answer \in Answers, context \in Contexts, failures \in 0..1, kept \in Refused :
       /\ Mishaps(failures + Cardinality(kept))
       /\ IF Readable THEN Verification(Read, panel.version, answer, context, failures)
          ELSE context = NoPolicy /\ failures = 0 /\ UNCHANGED accepted
       /\ IF Readable /\ Verified(Read, "pending", context)
          THEN /\ kept \subseteq {"old", "new"} /\ metadata' = Read
               /\ file' = Removed({"old", "new"}, kept)
               /\ installer' = IF kept = {} THEN [at |-> "verify", pending |-> Read]
                               ELSE installer
          ELSE /\ IF Readable /\ Read.kind = "legacy" THEN CleanupForRetry(kept) ELSE Cleanup(kept)
               /\ UNCHANGED installer
  /\ UNCHANGED <<world, marker>>

LaunchFails ==
  /\ panel.on /\ panel.at = "idle" /\ panel.pending # NoPending
  /\ Mishap /\ panel' = Off /\ file' = Removed({"old", "new"}, {})
  /\ UNCHANGED <<world, accepted, floor, metadata, marker, installer>>

-----------------------------------------------------------------------------
(***************************************************************************)
(* The installer: runUpdateHelper and replaceDownloadedExecutable.  It is  *)
(* the new version, which embeds a policy of its own.                      *)
(***************************************************************************)
Continues(at) == installer' = [installer EXCEPT !.at = at]
Ends == installer' = NoInstaller

\* A definitive failure: cleanupDefinitiveUpdateHelper.
VerifyPending ==
  /\ installer.at = "verify"
  /\ \E context \in Contexts, failures \in 0..1 :
       LET p == installer.pending
       IN /\ Verification(p, p.version, 0, context, failures) /\ Mishaps(failures)
          /\ IF Verified(p, "pending", context)
             THEN Continues("clear") /\ UNCHANGED <<file, metadata>>
             ELSE Ends /\ file' = Removed({"new"}, {}) /\ metadata' = NoPending
  /\ UNCHANGED <<world, floor, marker, panel>>

\* The panel that started it has exited: the files that stay are those of another.
Clear ==
  /\ installer.at = "clear"
  /\ \E kept \in Refused \ {{"pending"}, {"metadata"}} :
       /\ Mishaps(Cardinality(kept)) /\ file' = Removed({"old", "new"}, kept)
       /\ IF file'["old"] = None /\ file'["new"] = None THEN Continues("copy") ELSE Ends
  /\ UNCHANGED <<world, accepted, floor, metadata, marker, panel>>

\* copyUpdateFile creates .new, and it fails when there is one.
BeginCopy ==
  /\ installer.at = "copy"
  /\ IF file["new"] = None
     THEN file' = [file EXCEPT !["new"] = Torn] /\ Continues("copying")
     ELSE Ends /\ UNCHANGED file
  /\ UNCHANGED <<world, accepted, floor, metadata, marker, panel, mishaps>>

Copy ==
  /\ installer.at = "copying" /\ file["new"] = Torn
  /\ \/ file' = [file EXCEPT !["new"] = file["pending"]] /\ Continues("check") /\ UNCHANGED mishaps
     \/ Mishap /\ file' = [file EXCEPT !["new"] = None] /\ Ends
  /\ UNCHANGED <<world, accepted, floor, metadata, marker, panel>>

\* Verified with the verifier of the beginning.
GoodCopy(path) == file[path] = installer.pending.version

CheckCopy ==
  /\ installer.at = "check"
  /\ IF GoodCopy("new") THEN Continues("backup") /\ UNCHANGED file
     ELSE Ends /\ file' = Removed({"new"}, {})
  /\ UNCHANGED <<world, accepted, floor, metadata, marker, panel, mishaps>>

\* A running panel's program is renamed like any other.
Renamed(from, to) == file' = [file EXCEPT ![to] = file[from], ![from] = None]
ImageMoves(from, to) == panel' = IF panel.on /\ panel.image = from THEN [panel EXCEPT !.image = to] ELSE panel

\* Mutant of Backup: the old program makes room without a backup.
BackupOmitted ==
  /\ installer.at = "backup"
  /\ file' = [file EXCEPT !["target"] = None] /\ Continues("replace")
  /\ UNCHANGED <<world, accepted, floor, metadata, marker, panel, mishaps>>

Backup ==
  /\ installer.at = "backup"
  /\ \/ /\ file["target"] # None /\ ~Busy("old")
        /\ Renamed("target", "old") /\ ImageMoves("target", "old") /\ Continues("replace")
        /\ UNCHANGED mishaps
     \/ /\ IF file["target"] # None /\ ~Busy("old") THEN Mishap ELSE UNCHANGED mishaps
        /\ file' = Removed({"new"}, {}) /\ Ends /\ UNCHANGED panel
  /\ UNCHANGED <<world, accepted, floor, metadata, marker>>

Replace ==
  /\ installer.at = "replace" /\ file["new"] # None /\ ~Busy("target")
  /\ Renamed("new", "target") /\ Continues("final")
  /\ UNCHANGED <<world, accepted, floor, metadata, marker, panel, mishaps>>

\* The old program is put back, unless that fails too.
ReplaceFails ==
  /\ installer.at = "replace"
  /\ Ends
  /\ \E failed \in BOOLEAN :
       /\ Mishaps((IF file["new"] # None /\ ~Busy("target") THEN 1 ELSE 0) + (IF failed THEN 1 ELSE 0))
       /\ IF failed \/ file["old"] = None \/ Busy("target")
          THEN file' = Removed({"new"}, {}) /\ UNCHANGED panel
          ELSE /\ file' = [Removed({"new"}, {}) EXCEPT !["target"] = file["old"], !["old"] = None]
               /\ ImageMoves("old", "target")
  /\ UNCHANGED <<world, accepted, floor, metadata, marker>>

\* The program is verified in its place; if it is damaged the old one is put back.
CheckTarget ==
  /\ installer.at = "final"
  /\ IF GoodCopy("target") THEN Continues("marker") /\ UNCHANGED <<file, panel, mishaps>>
     ELSE /\ Ends
          /\ \E failed \in BOOLEAN :
               /\ Mishaps(IF failed THEN 1 ELSE 0)
               /\ IF Busy("target") THEN UNCHANGED <<file, panel>>
                  ELSE IF failed \/ file["old"] = None THEN file' = Removed({"target"}, {}) /\ UNCHANGED panel
                  ELSE Renamed("old", "target") /\ ImageMoves("old", "target")
  /\ UNCHANGED <<world, accepted, floor, metadata, marker>>

WriteMarker ==
  /\ installer.at = "marker"
  /\ \/ marker' = installer.pending.version /\ Continues("finish") /\ UNCHANGED mishaps
     \/ Mishap /\ Ends /\ UNCHANGED marker
  /\ UNCHANGED <<world, accepted, floor, file, metadata, panel>>

\* The metadata is removed; the program is started again with StartPanel.
Finish ==
  /\ installer.at = "finish"
  /\ Ends
  /\ \/ metadata' = NoPending /\ UNCHANGED mishaps
     \/ Mishap /\ UNCHANGED metadata
  /\ UNCHANGED <<world, accepted, floor, file, marker, panel>>

-----------------------------------------------------------------------------
InstallerKilled ==
  /\ installer.at # "off" /\ Mishap /\ Ends
  /\ UNCHANGED <<world, accepted, floor, file, metadata, marker, panel>>

\* A download or a copy that no program runs from is damaged, for example by a
\* virus scanner.
Damaged(path) ==
  /\ path \in {"pending", "new"} /\ file[path] \in Versions /\ ~Busy(path)
  /\ Mishap /\ file' = [file EXCEPT ![path] = Torn]
  /\ UNCHANGED <<world, accepted, floor, metadata, marker, panel, installer>>

\* The user puts a release in the program's place.
InstallByHand(v) ==
  /\ v <= Len(releases) /\ ~Busy("target") /\ file["target"] = None
  /\ installer.at = "off"
  /\ file' = [file EXCEPT !["target"] = v]
  /\ UNCHANGED <<world, accepted, floor, metadata, marker, panel, installer, mishaps>>

UpdateNext ==
  \/ Release \/ PublishPolicy \/ Expires
  \/ StartPanel \/ Sweep \/ Download \/ DownloadFails \/ WritePendingMetadata \/ Exit \/ LaunchFails
  \/ InstallOnExit \/ VerifyPending \/ Clear \/ BeginCopy \/ Copy \/ CheckCopy
  \/ Backup \/ Replace \/ ReplaceFails \/ CheckTarget \/ WriteMarker \/ Finish
  \/ InstallerKilled
  \/ \E path \in Paths : Damaged(path)
  \/ \E v \in Versions : InstallByHand(v)

UpdateSpec == UpdateInit /\ [][UpdateNext]_updateVars

-----------------------------------------------------------------------------
\* Whatever is killed, fails or is damaged, and in whatever order: an intact program
\* is at its path or, while it is replaced or after that broke off, beside it as
\* .old.  (A panel that is started while an installer works may exit and start another
\* one, which removes the .old that the first has left without a program: overlap.)
AProgramRemains == overlap \/ file["target"] \in Versions \/ file["old"] \in Versions

\* A policy in force authorizes the release; an expired one names its publisher.
Installable(v, e) ==
  \/ Authorizes(e, v)
  \/ e <= expired /\ NamesPublisher(e, SignerOf[v])

\* A program remains; and a release that was downloaded under a trust policy is put in
\* place only if the newest policy that any version of the program has accepted
\* authorizes it, or, once that policy has expired, names its publisher: never a new
\* legal identity (docs/superpowers/specs/2026-08-30-version-aware-signer-trust-rotation-design.md:188).
\* A release whose tag was withdrawn is installed after that policy's expiry, not before.
InstallsAreSafe ==
  /\ []AProgramRemains
  /\ [][Replace /\ ~overlap /\ installer.pending.kind = "signed" =>
          Installable(installer.pending.version, accepted)]_updateVars

\* A policy older than one that was accepted is never accepted again, by whichever
\* version of the program, with whatever answers of the sources.
PolicyEpochsNeverGoBack == [][accepted' >= accepted]_updateVars
=============================================================================
