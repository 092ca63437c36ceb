--------------------------- MODULE RepositorySite ---------------------------
(***************************************************************************)
(* The signed package repositories (tools/hfxdev/package_repositories.py,  *)
(* arch_repository.py): the operator builds the Arch repository, assembles *)
(* the site, signs it and publishes it to GitHub Pages and to the mirror   *)
(* release that older Pacman setups still read.  Every command is run by   *)
(* hand from some checkout, may be interrupted anywhere and is then run    *)
(* again; a Pacman client reads the mirror meanwhile.  Once a release is   *)
(* published the operator removes from the mirror the packages of every    *)
(* release but it and the one the checkout's retention file keeps.         *)
(*                                                                         *)
(* A revision names a checkout.  It fixes the product version and the Arch *)
(* packages its policy pins by digest.  The bytes of a package are named   *)
(* by the revision they were built from, and so are the database that      *)
(* lists them and its signature, which are deterministic.  A file name     *)
(* carries the version only, so two revisions of one version claim one     *)
(* name.                                                                   *)
(***************************************************************************)
EXTENDS Integers

CONSTANTS
    Revisions,      \* the checkouts: a set of positive numbers
    Version,        \* the product version of a revision
    Pins,           \* the source revision of the Arch packages its policy pins
    Retains,        \* the source revision of the earlier packages its mirror keeps
    Targets,        \* the apt and rpm distributions of the site
    MaxPublications \* bound of the publications started

None == 0

ASSUME SiteConstants ==
    /\ Revisions \subseteq Nat \ {None}
    /\ Version \in [Revisions -> Nat]
    /\ Pins \in [Revisions -> Revisions \union {None}]
    /\ Retains \in [Revisions -> Revisions \union {None}]
    /\ \A r \in Revisions : Retains[r] # None =>
          Pins[r] # None /\ Version[Retains[r]] < Version[Pins[r]]
    /\ MaxPublications \in Nat

VARIABLES
    repository, \* output of arch-repository build: the packages it holds, or None
    unsigned,   \* output of repositories assemble, or NoSite
    signed,     \* output of repositories sign, or NoSite
    pages,      \* the site the gh-pages branch serves
    mirror,     \* the assets of the Arch mirror release
    publish,    \* the publication in progress
    reported,   \* history: the site the last publication reported as published
    client,     \* a Pacman client of the mirror: the database it read, whether it
                \* accepted it, whether its release was dropped since (history)
    started     \* history: publications started

local == <<repository, unsigned, signed>>
remote == <<pages, mirror>>
vars == <<local, remote, publish, reported, client, started>>

Versions == {Version[r] : r \in Revisions}
PackageKinds == {"package", "package.sig"}
Database == <<"db", None>>             \* names without a version
DatabaseSignature == <<"db.sig", None>>
MetadataNames == {Database, DatabaseSignature}
PackageNames == PackageKinds \X Versions
Assets == PackageNames \union MetadataNames

\* An asset is absent, present with an upload that did not finish, which the
\* release lists without a digest, or present with the bytes of a revision.
Absent == None
Unfinished == -1
Complete(bytes) == bytes > None

\* A site: the version of the packages of every target, the Arch packages
\* (None before it is signed), and whether its files and signatures check out.
NoSite == [packages |-> [t \in Targets |-> None], arch |-> None, good |-> TRUE]
Idle == [step |-> "idle", site |-> NoSite, todo |-> {}]

\* The assets of a repository: two files per package, the database, its signature.
PackagesOf(r) == PackageKinds \X {Version[r]}
AssetsOf(r) == PackagesOf(r) \union MetadataNames

Init ==
    /\ repository = None
    /\ unsigned = NoSite /\ signed = NoSite
    /\ pages = NoSite
    /\ mirror = [a \in Assets |-> Absent]
    /\ publish = Idle
    /\ reported = NoSite
    /\ client = [db |-> None, accepted |-> FALSE, dropped |-> FALSE]
    /\ started = 0

---------------------------------------------------------------------------
(***************************************************************************)
(* Building, assembling and signing.  head is the checkout the command     *)
(* runs from.  _publish_atomic_directory builds beside the output and      *)
(* renames: an interrupted or refused command leaves no output and is a    *)
(* stuttering step here.                                                   *)
(***************************************************************************)
\* verify_arch_repository: exactly the packages the policy pins by digest.
VerifyArchRepository(head, packages) == packages # None /\ packages = Pins[head]

\* build_arch_repository verifies before and after it puts the result in place.
BuildRepository(head) ==
    /\ publish = Idle
    /\ VerifyArchRepository(head, Pins[head])
    /\ repository' = Pins[head]
    /\ UNCHANGED <<unsigned, signed, remote, publish, reported, client, started>>

\* collect_packages looks at names and versions; the revision is not in them.
Collects(head, packages) ==
    \A t \in Targets : packages[t] = Version[head]

\* _check_site_versions, of one target of a site
CheckSiteVersions(head, site, t) == site.packages[t] = Version[head]

\* assemble_site
Assemble(head, packages) ==
    /\ publish = Idle
    /\ Collects(head, packages)
    /\ unsigned' = [NoSite EXCEPT !.packages = packages]
    /\ UNCHANGED <<repository, signed, remote, publish, reported, client, started>>

\* Mutant: verification does not compare the site with the checkout.
VerifiesAnyCheckout(head, site) == site # NoSite /\ site.good

\* verify_site: the files, hashes and signatures of the site, the product
\* version of every target and, of a signed site, the pinned Arch packages.
VerifySite(head, site) ==
    /\ site # NoSite
    /\ site.good
    /\ \A t \in Targets : CheckSiteVersions(head, site, t)
    /\ site.arch # None => VerifyArchRepository(head, site.arch)

\* sign_site.  Unlike assembly it verifies after the rename: a result that gpg,
\* rpmsign or createrepo got wrong stays at the output path.
Sign(head, good) ==
    /\ publish = Idle
    /\ VerifySite(head, unsigned)
    /\ VerifyArchRepository(head, repository)
    /\ signed' = [unsigned EXCEPT !.arch = repository, !.good = good]
    /\ UNCHANGED <<repository, unsigned, remote, publish, reported, client, started>>

---------------------------------------------------------------------------
(***************************************************************************)
(* publish_site --execute.                                                 *)
(***************************************************************************)
\* release_asset_digests: what the release lists.  An upload that did not
\* finish is listed, without a digest.
Present(a) == mirror[a] # Absent

\* publish_steps stops at a package whose bytes on the release differ.
Refuses(site) ==
    \E a \in PackagesOf(site.arch) : Present(a) /\ mirror[a] # site.arch

\* Mutant: the metadata is uploaded before the packages it names.
MetadataFirst == [push |-> "metadata", metadata |-> "packages", packages |-> "check"]

\* The order of the steps.
StepAfter == [push |-> "packages", packages |-> "metadata", metadata |-> "check"]

\* What a step has to upload; no package upload is planned for files that are
\* already there.
Uploads(step, site) ==
    CASE step = "packages" -> {a \in PackagesOf(site.arch) : ~Present(a)}
      [] step = "metadata" -> MetadataNames
      [] OTHER -> {}

\* verify_site and the listing come before any step.
PublishBegin(head) ==
    /\ publish = Idle
    /\ started < MaxPublications
    /\ signed.arch # None
    /\ VerifySite(head, signed)
    /\ ~Refuses(signed)
    /\ publish' = [step |-> "push", site |-> signed, todo |-> {}]
    /\ reported' = NoSite
    /\ started' = started + 1
    /\ UNCHANGED <<local, remote, client>>

\* The commands one after the other; todo holds the files of an upload.
NextStep ==
    [publish EXCEPT !.step = StepAfter[@],
                    !.todo = Uploads(StepAfter[publish.step], publish.site)]

\* The force-push replaces the branch in one step.
PushPages ==
    /\ publish.step = "push"
    /\ pages' = publish.site
    /\ publish' = NextStep
    /\ UNCHANGED <<local, mirror, reported, client, started>>

\* gh release upload, several files at a time.  --clobber deletes an asset
\* before it uploads its successor; one left unfinished is as good as absent.
Clobber(a) ==
    /\ publish.step = "metadata" /\ a \in publish.todo
    /\ mirror[a] \notin {Absent, Unfinished}
    /\ mirror' = [mirror EXCEPT ![a] = Absent]
    /\ UNCHANGED <<local, pages, publish, reported, client, started>>

UploadBegins(a) ==
    /\ publish.step \in {"packages", "metadata"} /\ a \in publish.todo
    /\ mirror[a] = Absent
    /\ mirror' = [mirror EXCEPT ![a] = Unfinished]
    /\ UNCHANGED <<local, pages, publish, reported, client, started>>

UploadEnds(a) ==
    /\ publish.step \in {"packages", "metadata"} /\ a \in publish.todo
    /\ mirror[a] = Unfinished
    /\ mirror' = [mirror EXCEPT ![a] = publish.site.arch]
    /\ publish' = [publish EXCEPT !.todo = @ \ {a}]
    /\ UNCHANGED <<local, pages, reported, client, started>>

UploadDone ==
    /\ publish.step \in {"packages", "metadata"}
    /\ publish.todo = {}
    /\ publish' = NextStep
    /\ UNCHANGED <<local, remote, reported, client, started>>

\* The closing comparison of the mirror with the site.
PublishEnd ==
    /\ publish.step = "check"
    /\ publish' = Idle
    /\ reported' = IF \A a \in AssetsOf(publish.site.arch) : mirror[a] = publish.site.arch
                   THEN publish.site ELSE NoSite
    /\ UNCHANGED <<local, remote, client, started>>

\* Mutant: the exit status of a command is ignored.
FailureIgnored ==
    /\ publish.step \in DOMAIN StepAfter
    /\ publish' = NextStep
    /\ UNCHANGED <<local, remote, reported, client, started>>

\* A command fails or the operator's machine does.
PublishFails ==
    /\ publish # Idle
    /\ publish' = Idle
    /\ UNCHANGED <<local, remote, reported, client, started>>

\* The operator removes an asset whose upload did not finish, by hand.
RemoveUnfinished(a) ==
    /\ publish = Idle
    /\ mirror[a] = Unfinished
    /\ mirror' = [mirror EXCEPT ![a] = Absent]
    /\ UNCHANGED <<local, pages, publish, reported, client, started>>

\* load_arch_repository_retention: the releases whose packages a checkout's
\* verify-public accepts on the mirror, the current one and at most one earlier.
Keeps(head) == {Version[r] : r \in {Pins[head], Retains[head]} \ {None}}

\* After a publication the operator removes a package no such release has, by
\* hand; verify-public refuses the mirror until none is left.
RemoveUnlisted(head, a) ==
    /\ publish = Idle
    /\ reported # NoSite /\ reported.arch = Pins[head]
    /\ a \in PackageNames /\ Present(a) /\ a[2] \notin Keeps(head)
    /\ mirror' = [mirror EXCEPT ![a] = Absent]
    /\ client' = IF client.db # None /\ Version[client.db] \notin Keeps(head)
                 THEN [client EXCEPT !.dropped = TRUE] ELSE client
    /\ UNCHANGED <<local, pages, publish, reported, started>>

---------------------------------------------------------------------------
(***************************************************************************)
(* Pacman: the database, its signature, later the packages.                *)
(***************************************************************************)
ReadDatabase ==
    /\ Complete(mirror[Database])
    /\ client' = [db |-> mirror[Database], accepted |-> FALSE, dropped |-> FALSE]
    /\ UNCHANGED <<local, remote, publish, reported, started>>

ReadSignature ==
    /\ client.db # None /\ ~client.accepted
    /\ Complete(mirror[DatabaseSignature])
    /\ client' = IF mirror[DatabaseSignature] = client.db THEN [client EXCEPT !.accepted = TRUE]
                 ELSE [client EXCEPT !.db = None]
    /\ UNCHANGED <<local, remote, publish, reported, started>>

---------------------------------------------------------------------------
Next ==
    \/ \E head \in Revisions :
          \/ BuildRepository(head) \/ PublishBegin(head)
          \/ \E packages \in [Targets -> Versions] : Assemble(head, packages)
          \/ \E good \in BOOLEAN : Sign(head, good)
    \/ PushPages \/ UploadDone \/ PublishEnd \/ PublishFails
    \/ \E a \in Assets :
          \/ Clobber(a) \/ UploadBegins(a) \/ UploadEnds(a) \/ RemoveUnfinished(a)
          \/ \E head \in Revisions : RemoveUnlisted(head, a)
    \/ ReadDatabase \/ ReadSignature

Spec == Init /\ [][Next]_vars

---------------------------------------------------------------------------
(***************************************************************************)
(* Safety                                                                  *)
(***************************************************************************)
\* A client that accepted the mirror's database finds every package it names,
\* with the bytes it names, as long as every clean-up of the mirror since then ran
\* for a checkout that keeps its release: through publications that fail half-way,
\* are repeated, or replace the release, and through the removal of others.
AcceptedIsInstallable ==
    client.accepted /\ ~client.dropped =>
        \A a \in PackagesOf(client.db) : mirror[a] = client.db

\* The site that Pages serves is one some single checkout accounts for: the
\* version of every target and the pinned Arch packages, and its signatures
\* are good, whatever checkouts the commands ran from and whatever an earlier
\* command left at its output path.
ServedSiteIsCoherent ==
    pages # NoSite =>
        /\ pages.good
        /\ \E head \in Revisions :
              /\ pages.arch = Pins[head]
              /\ \A t \in Targets : pages.packages[t] = Version[head]

\* "Published: gh-pages replaced and the Arch mirror matches the site": once
\* that was reported and until the next publication starts, both hold the site.
ReportedIsServed ==
    reported # NoSite =>
        /\ pages = reported
        /\ \A a \in AssetsOf(reported.arch) : mirror[a] = reported.arch
=============================================================================
