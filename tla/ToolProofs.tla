----------------------------- MODULE ToolProofs -----------------------------
(***************************************************************************)
(* Proofs about the repository's own tools (tools/hfxdev): publication     *)
(* first, the authority model after it.                                    *)
(*                                                                         *)
(* Publication is safe for every set of checkouts, versions and pins.  The *)
(* argument: the bytes of a complete package on the mirror never change    *)
(* and a clean-up removes only packages of releases it does not keep, so   *)
(* what a database promised when it was uploaded it promises until such a  *)
(* clean-up; a database is uploaded only after the packages it names; and  *)
(* the site being published is one some checkout verified.                 *)
(***************************************************************************)
EXTENDS RepositorySite, AuthorityModel, TLAPS

Coherent(site) ==
    /\ site.good
    /\ site.arch \in Revisions
    /\ \E head \in Revisions :
          /\ site.arch = Pins[head]
          /\ \A t \in Targets : site.packages[t] = Version[head]

Installed(r) == r \in Revisions /\ \A a \in PackagesOf(r) : mirror[a] = r

\* The state the mirror, the client and the publication can be in.
Shape ==
    /\ mirror \in [Assets -> Revisions \union {Absent, Unfinished}]
    /\ publish \in [step : {"idle", "push", "packages", "metadata", "check"},
                    site : {publish.site}, todo : SUBSET Assets]
    /\ publish.step = "idle" => publish = Idle
    /\ client \in [db : Revisions \union {None}, accepted : BOOLEAN, dropped : BOOLEAN]

\* Whoever relies on a database whose release was not dropped finds its packages.
PromisesKept ==
    /\ mirror[Database] \in Revisions => Installed(mirror[Database])
    /\ client.db \in Revisions /\ ~client.dropped => Installed(client.db)
    /\ client.accepted => client.db \in Revisions

\* Where a publication stands: what its steps so far have established.
Progress ==
    /\ publish.step # "idle" => Coherent(publish.site) /\ publish.site # NoSite
    /\ publish.step = "push" => ~Refuses(publish.site)
    /\ publish.step = "packages" =>
         /\ publish.todo \subseteq PackagesOf(publish.site.arch)
         /\ \A a \in PackagesOf(publish.site.arch) :
              IF a \in publish.todo THEN mirror[a] \in {Absent, Unfinished}
              ELSE mirror[a] = publish.site.arch
    /\ publish.step = "metadata" => publish.todo \subseteq MetadataNames
    /\ publish.step \in {"metadata", "check"} => Installed(publish.site.arch)

\* What is served and what is reported.
Served ==
    /\ pages # NoSite => Coherent(pages)
    /\ publish.step \in {"packages", "metadata", "check"} => pages = publish.site
    /\ publish.step # "idle" => reported = NoSite
    /\ reported # NoSite =>
         /\ reported.arch \in Revisions
         /\ pages = reported
         /\ \A a \in AssetsOf(reported.arch) : mirror[a] = reported.arch

IInv == Shape /\ PromisesKept /\ Progress /\ Served

---------------------------------------------------------------------------
\* Packages and metadata have different names, and both are assets.
LEMMA Names ==
    /\ \A r \in Revisions : PackagesOf(r) \subseteq PackageNames
    /\ PackageNames \subseteq Assets /\ MetadataNames \subseteq Assets
    /\ Database \in MetadataNames /\ DatabaseSignature \in MetadataNames
    /\ PackageNames \intersect MetadataNames = {}
    /\ \A r \in Revisions : r > None /\ r # Absent /\ r # Unfinished /\ r \in Nat
<1>1. \A r \in Revisions : PackagesOf(r) \subseteq PackageNames
  BY DEF PackagesOf, PackageNames, Versions
<1>2. PackageNames \intersect MetadataNames = {}
  <2> SUFFICES ASSUME NEW a \in PackageNames, a \in MetadataNames PROVE FALSE
    OBVIOUS
  <2>1. a[1] \in {"package", "package.sig"}
    BY DEF PackageNames, PackageKinds
  <2>2. a[1] \in {"db", "db.sig"}
    BY DEF MetadataNames, Database, DatabaseSignature
  <2> QED
    BY <2>1, <2>2
<1>3. \A r \in Revisions : r > None /\ r # Absent /\ r # Unfinished /\ r \in Nat
  <2>1. Revisions \subseteq Nat \ {None}
    BY SiteConstants
  <2> QED
    BY <2>1 DEF None, Absent, Unfinished
<1> QED
  BY <1>1, <1>2, <1>3 DEF Assets, MetadataNames

\* Complete packages that stay as they are keep every revision installed.
LEMMA InstalledStays ==
    ASSUME \A a \in PackageNames : mirror[a] \in Revisions => mirror'[a] = mirror[a]
    PROVE  \A r : Installed(r) => Installed(r)'
BY Names DEF Installed

\* A verified signed site is accounted for by the checkout that verified it.
LEMMA VerifiedIsCoherent ==
    ASSUME NEW head \in Revisions, NEW site, site.arch # None, VerifySite(head, site)
    PROVE  Coherent(site)
BY SiteConstants DEF VerifySite, VerifyArchRepository, CheckSiteVersions, Coherent

\* The first state.
LEMMA InitSite == Init => IInv
<1> SUFFICES ASSUME Init PROVE IInv
  OBVIOUS
<1>1. Shape
  BY DEF Init, Shape, Idle, Absent, None
<1>2. PromisesKept
  BY Names DEF Init, PromisesKept, Absent, None
<1>3. Progress /\ Served
  BY DEF Init, Progress, Served, Idle
<1> QED
  BY <1>1, <1>2, <1>3 DEF IInv

\* The local commands touch neither the mirror, nor Pages, nor a publication.
LEMMA LocalSteps ==
    ASSUME IInv, UNCHANGED <<remote, publish, reported, client>>
    PROVE  IInv'
BY DEF IInv, Shape, PromisesKept, Progress, Served, Installed, Coherent, Refuses, Present,
       remote, PackagesOf, AssetsOf

\* A publication begins only with a site its checkout verified and whose
\* packages the mirror lacks or already has.
LEMMA PublishBeginStep ==
    ASSUME IInv, NEW head \in Revisions, PublishBegin(head)
    PROVE  IInv'
<1>1. UNCHANGED <<mirror, pages, client>> /\ publish.step = "idle"
  BY DEF PublishBegin, remote, Idle
<1>2. /\ publish' = [step |-> "push", site |-> signed, todo |-> {}]
      /\ reported' = NoSite
  BY DEF PublishBegin
<1>3. Coherent(signed) /\ signed # NoSite
  BY VerifiedIsCoherent DEF PublishBegin, VerifySite
<1>4. ~Refuses(signed)
  BY DEF PublishBegin
<1>5. Shape'
  BY <1>1, <1>2 DEF IInv, Shape
<1>6. PromisesKept'
  BY <1>1 DEF IInv, PromisesKept, Installed
<1>7. Progress'
  <2>1. publish'.step = "push" /\ publish'.site = signed
    BY <1>2
  <2>2. Coherent(publish.site)' /\ publish.site' # NoSite
    BY <1>3, <2>1 DEF Coherent
  <2>3. ~Refuses(publish.site)'
    BY <1>1, <1>4, <2>1 DEF Refuses, Present
  <2> QED
    BY <2>1, <2>2, <2>3 DEF Progress
<1>8. Served'
  BY <1>1, <1>2 DEF IInv, Served, Coherent
<1> QED
  BY <1>5, <1>6, <1>7, <1>8 DEF IInv

\* The force-push puts the verified site on Pages; the packages the mirror
\* lacks are what the next step has to upload.
LEMMA PushPagesStep ==
    ASSUME IInv, PushPages
    PROVE  IInv'
<1>1. UNCHANGED <<mirror, reported, client>> /\ publish.step = "push" /\ pages' = publish.site
  BY DEF PushPages
<1>2. /\ publish'.step = "packages" /\ publish'.site = publish.site
      /\ publish'.todo = {a \in PackagesOf(publish.site.arch) : ~Present(a)}
      /\ publish' \in [step : {"packages"}, site : {publish'.site}, todo : {publish'.todo}]
  <2>1. publish \in [step : {"push"}, site : {publish.site}, todo : {publish.todo}]
    BY <1>1 DEF IInv, Shape
  <2>2. StepAfter[publish.step] = "packages"
    BY <1>1 DEF StepAfter
  <2>3. Uploads("packages", publish.site) = {a \in PackagesOf(publish.site.arch) : ~Present(a)}
    BY DEF Uploads
  <2>4. publish' = [publish EXCEPT !.step = "packages",
                                   !.todo = Uploads("packages", publish.site)]
    BY <2>1, <2>2 DEF PushPages, NextStep
  <2> QED
    BY <2>1, <2>3, <2>4
<1>3. Coherent(publish.site) /\ publish.site # NoSite /\ ~Refuses(publish.site)
  BY <1>1 DEF IInv, Progress
<1>4. publish.site.arch \in Revisions
  BY <1>3 DEF Coherent
<1>5. Shape'
  <2>1. publish'.todo \in SUBSET Assets
    BY <1>2, <1>4, Names
  <2> QED
    BY <1>1, <1>2, <2>1 DEF IInv, Shape
<1>6. PromisesKept'
  BY <1>1 DEF IInv, PromisesKept, Installed
<1>7. Progress'
  <2>1. Coherent(publish.site)' /\ publish.site' # NoSite
    BY <1>2, <1>3 DEF Coherent
  <2>2. \A a \in PackagesOf(publish.site.arch) :
          IF a \in publish'.todo THEN mirror[a] \in {Absent, Unfinished}
          ELSE mirror[a] = publish.site.arch
    BY <1>2, <1>3 DEF Refuses, Present
  <2> QED
    BY <1>1, <1>2, <2>1, <2>2 DEF Progress
<1>8. Served'
  <2>1. reported' = NoSite
    BY <1>1 DEF IInv, Served
  <2>2. Coherent(pages)'
    BY <1>1, <1>3 DEF Coherent
  <2> QED
    BY <1>1, <1>2, <2>1, <2>2 DEF Served
<1> QED
  BY <1>5, <1>6, <1>7, <1>8 DEF IInv

\* What one asset's change must respect: a complete package stays, a finished
\* database names installed packages, and nothing was reported yet.
LEMMA MirrorStep ==
    ASSUME IInv, NEW a \in Assets, NEW bytes \in Revisions \union {Absent, Unfinished},
           mirror' = [mirror EXCEPT ![a] = bytes],
           UNCHANGED <<pages, reported, client>>,
           mirror[a] \in Revisions => a \in MetadataNames,
           a = Database /\ bytes \in Revisions => Installed(bytes),
           reported # NoSite => a \notin AssetsOf(reported.arch)
    PROVE  /\ mirror' \in [Assets -> Revisions \union {Absent, Unfinished}]
           /\ PromisesKept'
           /\ \A r : Installed(r) => Installed(r)'
           /\ reported # NoSite =>
                 \A b \in AssetsOf(reported.arch) : mirror'[b] = mirror[b]
<1>1. mirror \in [Assets -> Revisions \union {Absent, Unfinished}]
  BY DEF IInv, Shape
<1>2. mirror' \in [Assets -> Revisions \union {Absent, Unfinished}]
  BY <1>1
<1>3. mirror'[a] = bytes /\ \A b \in Assets : b # a => mirror'[b] = mirror[b]
  BY <1>1
<1>4. \A b \in PackageNames : mirror[b] \in Revisions => mirror'[b] = mirror[b]
  BY <1>3, Names
<1>5. \A r : Installed(r) => Installed(r)'
  BY <1>4, InstalledStays
<1>6. PromisesKept'
  <2>1. client.db \in Revisions /\ ~client.dropped => Installed(client.db)'
    BY <1>5 DEF IInv, PromisesKept
  <2>2. (mirror[Database] \in Revisions => Installed(mirror[Database]))'
    <3>1. PICK d : d = mirror'[Database]
      OBVIOUS
    <3>2. d \in Revisions => Installed(d)
      <4>1. CASE a = Database
        BY <1>3, <3>1, <4>1
      <4>2. CASE a # Database
        BY <1>3, <3>1, <4>2, Names DEF IInv, PromisesKept
      <4> QED
        BY <4>1, <4>2
    <3>3. d \in Revisions => Installed(d)'
      BY <1>5, <3>2
    <3> QED
      BY <3>1, <3>3 DEF Installed
  <2>3. (client.db \in Revisions /\ ~client.dropped => Installed(client.db))'
    BY <2>1 DEF Installed
  <2>4. (client.accepted => client.db \in Revisions)'
    BY DEF IInv, PromisesKept
  <2> QED
    BY <2>2, <2>3, <2>4 DEF PromisesKept
<1>7. ASSUME reported # NoSite
      PROVE  \A b \in AssetsOf(reported.arch) : mirror'[b] = mirror[b]
  <2>1. AssetsOf(reported.arch) \subseteq Assets
    BY <1>7, Names DEF IInv, Served, AssetsOf
  <2> QED
    BY <1>3, <1>7, <2>1
<1> QED
  BY <1>2, <1>5, <1>6, <1>7

\* An upload never touches a complete package: clobbering is for metadata, and
\* what an upload begins or ends was absent or unfinished.
LEMMA UploadStep ==
    ASSUME IInv, NEW a \in Assets, Clobber(a) \/ UploadBegins(a) \/ UploadEnds(a)
    PROVE  IInv'
<1>1. /\ publish.step \in {"packages", "metadata"} /\ a \in publish.todo
      /\ UNCHANGED <<pages, reported, client>>
      /\ publish'.step = publish.step /\ publish'.site = publish.site
  BY DEF Clobber, UploadBegins, UploadEnds, IInv, Shape
<1>2. publish'.todo = publish.todo \/ publish'.todo = publish.todo \ {a}
  BY DEF Clobber, UploadBegins, UploadEnds, IInv, Shape
<1>3. /\ reported = NoSite /\ Coherent(publish.site) /\ publish.site # NoSite
      /\ publish.site.arch \in Revisions /\ pages = publish.site
  BY <1>1 DEF IInv, Served, Progress, Coherent
<1>4. mirror \in [Assets -> Revisions \union {Absent, Unfinished}]
  BY DEF IInv, Shape
<1> DEFINE bytes == mirror'[a]
<1>5. bytes \in Revisions \union {Absent, Unfinished} /\ mirror' = [mirror EXCEPT ![a] = bytes]
  BY <1>3, <1>4 DEF Clobber, UploadBegins, UploadEnds
<1>6. mirror[a] \in Revisions => a \in MetadataNames
  BY <1>1, Names DEF Clobber, UploadBegins, UploadEnds, IInv, Progress
<1>7. a = Database /\ bytes \in Revisions => Installed(bytes)
  <2> SUFFICES ASSUME a = Database, bytes \in Revisions PROVE Installed(bytes)
    OBVIOUS
  <2>1. publish.step = "metadata"
    BY <1>1, <1>3, Names DEF IInv, Progress
  <2>2. bytes = publish.site.arch
    BY <1>4, Names DEF Clobber, UploadBegins, UploadEnds
  <2> QED
    BY <2>1, <2>2 DEF IInv, Progress
<1> HIDE DEF bytes
<1>8. /\ mirror' \in [Assets -> Revisions \union {Absent, Unfinished}]
      /\ PromisesKept'
      /\ \A r : Installed(r) => Installed(r)'
  BY <1>1, <1>3, <1>5, <1>6, <1>7, MirrorStep
<1>9. Shape'
  <2>1. publish' \in [step : {publish.step}, site : {publish'.site}, todo : SUBSET Assets]
    BY <1>1, <1>2 DEF Clobber, UploadBegins, UploadEnds, IInv, Shape
  <2> QED
    BY <1>1, <1>8, <2>1 DEF IInv, Shape
<1>10. Progress'
  <2>1. (publish.step # "idle" => Coherent(publish.site) /\ publish.site # NoSite)'
    BY <1>1, <1>3 DEF Coherent
  <2>2. CASE publish.step = "packages"
    <3>1. publish'.todo \subseteq PackagesOf(publish.site.arch)
      BY <1>2, <2>2 DEF IInv, Progress
    <3>2. \A b \in PackagesOf(publish.site.arch) :
            IF b \in publish'.todo THEN mirror'[b] \in {Absent, Unfinished}
            ELSE mirror'[b] = publish.site.arch
      <4> SUFFICES ASSUME NEW b \in PackagesOf(publish.site.arch)
                   PROVE  IF b \in publish'.todo THEN mirror'[b] \in {Absent, Unfinished}
                          ELSE mirror'[b] = publish.site.arch
        OBVIOUS
      <4>1. b \in Assets
        BY <1>3, Names
      <4>2. CASE b # a
        BY <1>2, <1>4, <1>5, <2>2, <4>1, <4>2 DEF IInv, Progress
      <4>3. CASE b = a
        <5>1. CASE UploadBegins(a)
          BY <1>1, <1>4, <4>3, <5>1 DEF UploadBegins
        <5>2. CASE UploadEnds(a)
          BY <1>1, <1>4, <4>3, <5>2 DEF UploadEnds, IInv, Shape
        <5>3. CASE Clobber(a)
          BY <2>2, <5>3 DEF Clobber
        <5> QED
          BY <5>1, <5>2, <5>3
      <4> QED
        BY <4>2, <4>3
    <3> QED
      BY <1>1, <2>1, <2>2, <3>1, <3>2 DEF Progress
  <2>3. CASE publish.step = "metadata"
    <3>1. publish'.todo \subseteq MetadataNames
      BY <1>2, <2>3 DEF IInv, Progress
    <3>2. Installed(publish.site.arch)
      BY <2>3 DEF IInv, Progress
    <3>3. Installed(publish.site.arch)'
      BY <1>1, <1>8, <3>2 DEF Installed
    <3> QED
      BY <1>1, <2>1, <2>3, <3>1, <3>3 DEF Progress
  <2> QED
    BY <1>1, <2>2, <2>3
<1>11. Served'
  BY <1>1, <1>3 DEF IInv, Served, Coherent
<1> QED
  BY <1>8, <1>9, <1>10, <1>11 DEF IInv

\* The operator removes unfinished uploads only, which no one relies on.
LEMMA RemoveUnfinishedStep ==
    ASSUME IInv, NEW a \in Assets, RemoveUnfinished(a)
    PROVE  IInv'
<1>1. /\ publish = Idle /\ mirror[a] = Unfinished
      /\ mirror' = [mirror EXCEPT ![a] = Absent]
      /\ UNCHANGED <<pages, publish, reported, client>>
  BY DEF RemoveUnfinished
<1>2. reported # NoSite => a \notin AssetsOf(reported.arch)
  BY <1>1, Names DEF IInv, Served
<1>3. mirror[a] \notin Revisions /\ Absent \notin Revisions
  BY <1>1, Names
<1>4. /\ mirror' \in [Assets -> Revisions \union {Absent, Unfinished}]
      /\ PromisesKept'
      /\ reported # NoSite => \A b \in AssetsOf(reported.arch) : mirror'[b] = mirror[b]
  BY <1>1, <1>2, <1>3, MirrorStep
<1>5. Shape'
  BY <1>1, <1>4 DEF IInv, Shape
<1>6. Progress'
  BY <1>1 DEF Progress, Idle
<1>7. Served'
  BY <1>1, <1>4 DEF IInv, Served, Coherent, Idle
<1> QED
  BY <1>4, <1>5, <1>6, <1>7 DEF IInv

\* A package the clean-up removes belongs to no release the checkout keeps: the
\* mirror's database and what was reported are of the release it pins, and a client
\* whose release is not kept is marked.
LEMMA RemoveUnlistedStep ==
    ASSUME IInv, NEW head \in Revisions, NEW a \in Assets, RemoveUnlisted(head, a)
    PROVE  IInv'
<1>1. /\ publish = Idle /\ reported # NoSite /\ reported.arch = Pins[head]
      /\ a \in PackageNames /\ a[2] \notin Keeps(head)
      /\ mirror' = [mirror EXCEPT ![a] = Absent]
      /\ UNCHANGED <<pages, publish, reported>>
  BY DEF RemoveUnlisted
<1>2. mirror \in [Assets -> Revisions \union {Absent, Unfinished}]
  BY DEF IInv, Shape
<1>3. /\ mirror' \in [Assets -> Revisions \union {Absent, Unfinished}]
      /\ \A b \in Assets : b # a => mirror'[b] = mirror[b]
  BY <1>1, <1>2
<1>4. \A r \in Revisions : Version[r] \in Keeps(head) => a \notin PackagesOf(r)
  BY <1>1 DEF PackagesOf
<1>5. \A r \in Revisions : Version[r] \in Keeps(head) /\ Installed(r) => Installed(r)'
  BY <1>3, <1>4, Names DEF Installed
<1>6. reported.arch \in Revisions /\ Version[reported.arch] \in Keeps(head)
  BY <1>1, Names DEF IInv, Served, Keeps, Absent
<1>7. \A b \in AssetsOf(reported.arch) : mirror'[b] = mirror[b]
  BY <1>1, <1>3, <1>4, <1>6, Names DEF AssetsOf
<1>8. Served'
  BY <1>1, <1>7 DEF IInv, Served, Coherent, Idle
<1>9. client' \in [db : Revisions \union {None}, accepted : BOOLEAN, dropped : BOOLEAN]
  BY DEF RemoveUnlisted, IInv, Shape
<1>10. /\ client'.db = client.db /\ client'.accepted = client.accepted
       /\ ~client'.dropped /\ client.db # None =>
             ~client.dropped /\ Version[client.db] \in Keeps(head)
  BY DEF RemoveUnlisted, IInv, Shape
<1>11. PromisesKept'
  <2>1. mirror'[Database] = reported.arch /\ mirror[Database] = reported.arch
    BY <1>1, <1>7, Names DEF IInv, Served, AssetsOf
  <2>2. Installed(reported.arch)'
    <3>1. PICK r \in Revisions : r = reported.arch
      BY <1>6
    <3>2. Installed(r)
      BY <2>1, <3>1 DEF IInv, PromisesKept
    <3>3. Installed(r)'
      BY <1>5, <1>6, <3>1, <3>2
    <3> QED
      BY <1>1, <3>1, <3>3 DEF Installed
  <2>3. (mirror[Database] \in Revisions => Installed(mirror[Database]))'
    BY <1>1, <2>1, <2>2 DEF Installed
  <2>4. ASSUME client.db \in Revisions, ~client'.dropped PROVE Installed(client.db)'
    <3>1. ~client.dropped /\ Version[client.db] \in Keeps(head)
      BY <1>10, <2>4, Names DEF Absent
    <3>2. PICK r \in Revisions : r = client.db
      BY <2>4
    <3>3. Installed(r)'
      BY <1>5, <3>1, <3>2 DEF IInv, PromisesKept
    <3> QED
      BY <1>10, <3>2, <3>3 DEF Installed
  <2>5. (client.accepted => client.db \in Revisions)'
    BY <1>10 DEF IInv, PromisesKept
  <2> QED
    BY <1>10, <2>3, <2>4, <2>5 DEF PromisesKept, Installed
<1>12. Shape'
  BY <1>1, <1>3, <1>9 DEF IInv, Shape
<1>13. Progress'
  BY <1>1 DEF Progress, Idle
<1> QED
  BY <1>8, <1>11, <1>12, <1>13 DEF IInv

\* An upload is complete: after the packages all of them are there.
LEMMA UploadDoneStep ==
    ASSUME IInv, UploadDone
    PROVE  IInv'
<1>1. /\ publish.step \in {"packages", "metadata"} /\ publish.todo = {}
      /\ UNCHANGED <<mirror, pages, reported, client>>
  BY DEF UploadDone, remote
<1>2. /\ reported = NoSite /\ Coherent(publish.site) /\ publish.site # NoSite
      /\ publish.site.arch \in Revisions /\ pages = publish.site
  BY <1>1 DEF IInv, Served, Progress, Coherent
<1>3. Installed(publish.site.arch)
  BY <1>1, <1>2 DEF IInv, Progress, Installed
<1>4. /\ publish' \in [step : {"metadata", "check"}, site : {publish.site},
                       todo : SUBSET MetadataNames]
      /\ publish'.site = publish.site
  <2>1. publish \in [step : {publish.step}, site : {publish.site}, todo : {publish.todo}]
    BY DEF IInv, Shape
  <2>2. publish' = [publish EXCEPT !.step = StepAfter[publish.step],
                      !.todo = Uploads(StepAfter[publish.step], publish.site)]
    BY <2>1 DEF UploadDone, NextStep
  <2>3. CASE publish.step = "packages"
    <3>1. StepAfter[publish.step] = "metadata"
      BY <2>3 DEF StepAfter
    <3>2. Uploads("metadata", publish.site) = MetadataNames
      BY DEF Uploads
    <3> QED
      BY <2>1, <2>2, <3>1, <3>2
  <2>4. CASE publish.step = "metadata"
    <3>1. StepAfter[publish.step] = "check"
      BY <2>4 DEF StepAfter
    <3>2. Uploads("check", publish.site) = {}
      BY DEF Uploads
    <3> QED
      BY <2>1, <2>2, <3>1, <3>2
  <2> QED
    BY <1>1, <2>3, <2>4
<1>5. Shape'
  BY <1>1, <1>4, Names DEF IInv, Shape
<1>6. PromisesKept'
  BY <1>1 DEF IInv, PromisesKept, Installed
<1>7. Progress'
  <2>1. Coherent(publish.site)' /\ publish.site' # NoSite
    BY <1>2, <1>4 DEF Coherent
  <2>2. Installed(publish.site.arch)'
    BY <1>1, <1>3, <1>4 DEF Installed
  <2>3. publish'.step \in {"metadata", "check"} /\ publish'.todo \subseteq MetadataNames
    BY <1>4
  <2> QED
    BY <2>1, <2>2, <2>3 DEF Progress
<1>8. Served'
  BY <1>1, <1>2, <1>4 DEF IInv, Served, Coherent
<1> QED
  BY <1>5, <1>6, <1>7, <1>8 DEF IInv

\* A publication ends: with a report only when the mirror compares equal, or
\* anywhere with a failure.
LEMMA PublishEndStep ==
    ASSUME IInv, PublishEnd \/ PublishFails
    PROVE  IInv'
<1>1. UNCHANGED <<mirror, pages, client>> /\ publish' = Idle
  BY DEF PublishEnd, PublishFails, remote
<1>2. Shape' /\ Progress'
  BY <1>1 DEF IInv, Shape, Progress, Idle
<1>3. PromisesKept'
  BY <1>1 DEF IInv, PromisesKept, Installed
<1>4. Served'
  <2>1. CASE PublishFails
    BY <1>1, <2>1 DEF PublishFails, IInv, Served, Coherent, Idle
  <2>2. CASE PublishEnd
    <3>1. /\ pages = publish.site /\ publish.site.arch \in Revisions
          /\ reported' = NoSite \/ /\ reported' = publish.site
                                   /\ \A a \in AssetsOf(publish.site.arch) :
                                        mirror[a] = publish.site.arch
      BY <2>2 DEF PublishEnd, IInv, Served, Progress, Coherent
    <3> QED
      BY <1>1, <3>1 DEF IInv, Served, Coherent, Idle
  <2> QED
    BY <2>1, <2>2
<1> QED
  BY <1>2, <1>3, <1>4 DEF IInv

\* A client reads a database whose packages are installed.
LEMMA ClientStep ==
    ASSUME IInv, ReadDatabase \/ ReadSignature
    PROVE  IInv'
<1>1. UNCHANGED <<mirror, pages, publish, reported>>
  BY DEF ReadDatabase, ReadSignature, remote
<1>2. client' \in [db : Revisions \union {None}, accepted : BOOLEAN, dropped : BOOLEAN]
  <2>1. client \in [db : Revisions \union {None}, accepted : BOOLEAN, dropped : BOOLEAN]
    BY DEF IInv, Shape
  <2>2. CASE ReadDatabase
    <3>1. mirror[Database] \in Revisions \union {Absent, Unfinished}
      BY Names DEF IInv, Shape
    <3>2. mirror[Database] > None
      BY <2>2 DEF ReadDatabase, Complete
    <3>3. mirror[Database] \in Revisions
      BY <3>1, <3>2 DEF Absent, Unfinished, None
    <3> QED
      BY <2>2, <3>3 DEF ReadDatabase
  <2>3. CASE ReadSignature
    BY <2>1, <2>3 DEF ReadSignature
  <2> QED
    BY <2>2, <2>3
<1>3. \/ client'.db = mirror[Database]
      \/ client'.db = client.db /\ client'.dropped = client.dropped
      \/ client'.db = None
  BY DEF ReadDatabase, ReadSignature, IInv, Shape
<1>4. client'.accepted => client'.db # None
  <2>1. CASE ReadDatabase
    BY <2>1 DEF ReadDatabase
  <2>2. CASE ReadSignature
    BY <2>2 DEF ReadSignature, IInv, Shape
  <2> QED
    BY <2>1, <2>2
<1>5. PromisesKept'
  <2>1. client'.db \in Revisions /\ ~client'.dropped => Installed(client'.db)
    BY <1>3, Names DEF IInv, PromisesKept, None
  <2> QED
    BY <1>1, <1>2, <1>4, <2>1 DEF IInv, PromisesKept, Installed
<1>6. Shape'
  BY <1>1, <1>2 DEF IInv, Shape
<1>7. Progress' /\ Served'
  BY <1>1 DEF IInv, Progress, Served, Coherent, Installed, Refuses, Present
<1> QED
  BY <1>5, <1>6, <1>7 DEF IInv

\* Every step of the operator, the release host and the client preserves IInv.
LEMMA NextSite == IInv /\ [Next]_vars => IInv'
<1> SUFFICES ASSUME IInv, [Next]_vars PROVE IInv'
  OBVIOUS
<1>1. ASSUME NEW head \in Revisions, BuildRepository(head) PROVE IInv'
  BY <1>1, LocalSteps DEF BuildRepository
<1>2. ASSUME NEW head \in Revisions, NEW packages \in [Targets -> Versions],
             Assemble(head, packages)
      PROVE  IInv'
  BY <1>2, LocalSteps DEF Assemble
<1>3. ASSUME NEW head \in Revisions, NEW good \in BOOLEAN, Sign(head, good) PROVE IInv'
  BY <1>3, LocalSteps DEF Sign
<1>4. CASE UNCHANGED vars
  BY <1>4, LocalSteps DEF vars
<1> QED
  BY <1>1, <1>2, <1>3, <1>4, PublishBeginStep, PushPagesStep, UploadStep,
     RemoveUnfinishedStep, RemoveUnlistedStep, UploadDoneStep, PublishEndStep, ClientStep DEF Next

\* What the publication has promised at each of its steps holds in every state, over
\* every failure and repetition (publish_site).
THEOREM SiteInvariant == Spec => []IInv
<1> QED
  BY InitSite, NextSite, PTL DEF Spec

\* A Pacman client that accepted the mirror's database can install every package
\* it names until a clean-up for a checkout that does not keep its release, through
\* failed, repeated and superseding publications: packages go up before the metadata
\* that names them, are never replaced, and only unlisted ones are removed.
THEOREM AcceptedIsInstallableHolds == Spec => []AcceptedIsInstallable
<1>1. IInv => AcceptedIsInstallable
  BY DEF IInv, PromisesKept, Installed, AcceptedIsInstallable
<1> QED
  BY <1>1, SiteInvariant, PTL

\* Pages serves only sites that one checkout accounts for: verify_site runs before
\* the push, from the same checkout.
THEOREM ServedSiteIsCoherentHolds == Spec => []ServedSiteIsCoherent
<1>1. IInv => ServedSiteIsCoherent
  BY DEF IInv, Served, Coherent, ServedSiteIsCoherent
<1> QED
  BY <1>1, SiteInvariant, PTL

\* What was reported as published is what Pages and the mirror hold: the report comes
\* after the last upload.
THEOREM ReportedIsServedHolds == Spec => []ReportedIsServed
<1>1. IInv => ReportedIsServed
  BY DEF IInv, Served, ReportedIsServed
<1> QED
  BY <1>1, SiteInvariant, PTL

---------------------------------------------------------------------------
(***************************************************************************)
(* The bounded authority model, for every number of receiver generations.  *)
(* NoInvariantFailure is not inductive: that an attempt is only counted    *)
(* once needs AttemptsAreSpent, and that a generation just issued was      *)
(* never retired needs the bound on retired in TypeOK.                     *)
(***************************************************************************)
\* Nothing was tried before the dispatch of the transaction in hand.
AttemptsAreSpent ==
    transaction_phase \notin {"success", "uncertain"} => hardware_attempts = 0

AuthorityInv == TypeOK /\ NoInvariantFailure /\ AttemptsAreSpent

\* Before the receiver is first seen nothing is authorised.
LEMMA AuthorityInit == InitialState => AuthorityInv
<1> SUFFICES ASSUME InitialState PROVE AuthorityInv
    OBVIOUS
<1> USE DEF InitialState, OWNERS, PHASES, NONTERMINAL, TERMINAL
<1>1. TypeOK
      <2>1. qualified \in BOOLEAN
            OBVIOUS
      <2>2. QED
            BY <2>1, GenerationsAssumption DEF TypeOK
<1>2. NoInvariantFailure /\ AttemptsAreSpent
      BY DEF NoInvariantFailure, ActiveIsNotRetired, LeaseIsOfActive, TransactionIsOfActive,
         AttemptsMatchOutcome, IntentWasIssued, AttemptsAreSpent
<1>3. QED
      BY <1>1, <1>2 DEF AuthorityInv

\* What is left when a generation ends: no lease, no transaction in flight.
NothingInFlight ==
    /\ lease_owner' = "none" /\ lease_generation' = 0
    /\ transaction_phase' \in PHASES \ NONTERMINAL
    /\ transaction_phase' = "none" => transaction_generation' = 0
    /\ transaction_generation' = transaction_generation
    /\ AttemptsMatchOutcome' /\ AttemptsAreSpent'
    /\ stable_intent_generation' = stable_intent_generation

\* EndActiveGeneration, which Connect and Disconnect share, ends the lease and
\* whatever the transaction was doing.
LEMMA EndedGenerationKeepsNothing == AuthorityInv /\ EndActiveGeneration => NothingInFlight
BY DEF NothingInFlight, EndActiveGeneration, InvalidateNonterminal, transaction,
   AuthorityInv, TypeOK, NoInvariantFailure, TransactionIsOfActive, AttemptsMatchOutcome,
   AttemptsAreSpent, PHASES, NONTERMINAL, TERMINAL

\* Every transition of _successor_states keeps the inductive invariant.
LEMMA AuthorityNext == AuthorityInv /\ [SuccessorStates]_modelState => AuthorityInv'
<1> SUFFICES ASSUME AuthorityInv, [SuccessorStates]_modelState PROVE AuthorityInv'
    OBVIOUS
<1>0. Connect \/ Disconnect => NothingInFlight
      BY EndedGenerationKeepsNothing DEF Connect, Disconnect
<1> USE DEF AuthorityInv, TypeOK, NoInvariantFailure, ActiveIsNotRetired, LeaseIsOfActive,
        TransactionIsOfActive, AttemptsMatchOutcome, IntentWasIssued, AttemptsAreSpent,
        OWNERS, PHASES, NONTERMINAL, TERMINAL
<1>1. CASE Connect
      <2>1. qualified' \in BOOLEAN
            BY <1>1 DEF Connect, EndActiveGeneration
      <2>2. retired' \in SUBSET (1 .. issued_generation') /\ active_generation' \notin retired'
            BY <1>1, GenerationsAssumption DEF Connect, EndActiveGeneration
      <2>3. TypeOK'
            BY <1>0, <1>1, <2>1, <2>2, GenerationsAssumption DEF Connect, NothingInFlight
      <2>4. NoInvariantFailure' /\ AttemptsAreSpent'
            BY <1>0, <1>1, <2>2, GenerationsAssumption DEF Connect, NothingInFlight
      <2>5. QED
            BY <2>3, <2>4
<1>2. CASE Disconnect
      <2>1. qualified' \in BOOLEAN
            BY <1>2 DEF Disconnect, EndActiveGeneration
      <2>2. retired' \in SUBSET (1 .. issued_generation') /\ active_generation' \notin retired'
            BY <1>2, GenerationsAssumption DEF Disconnect, EndActiveGeneration
      <2>3. TypeOK'
            BY <1>0, <1>2, <2>1, <2>2, GenerationsAssumption DEF Disconnect, NothingInFlight
      <2>4. NoInvariantFailure' /\ AttemptsAreSpent'
            BY <1>0, <1>2, <2>2, GenerationsAssumption DEF Disconnect, NothingInFlight
      <2>5. QED
            BY <2>3, <2>4
<1>3. CASE Qualify
      BY <1>3 DEF Qualify, lease, transaction
<1>4. CASE AcquireLease("application") \/ AcquireLease("restoration")
      BY <1>4 DEF AcquireLease, receiver, transaction
<1>5. CASE ReleaseLease
      BY <1>5, GenerationsAssumption DEF ReleaseLease, receiver, transaction
<1>6. CASE QueueTransaction
      BY <1>6 DEF QueueTransaction, receiver, lease
<1>7. CASE AuthorizeTransaction \/ ReserveTransport
      BY <1>7 DEF AuthorizeTransaction, ReserveTransport, Proceed, receiver, lease
<1>8. CASE DispatchSuccess \/ DispatchSafeFailure \/ DispatchUncertain
      BY <1>8 DEF DispatchSuccess, DispatchSafeFailure, DispatchUncertain, Dispatch,
         receiver, lease
<1>9. CASE CaptureStableIntent
      BY <1>9 DEF CaptureStableIntent, receiver, lease, transaction
<1>10. CASE ClearSafeTerminal
      BY <1>10 DEF ClearSafeTerminal, receiver, lease
<1>11. CASE UNCHANGED modelState
      BY <1>11 DEF modelState, receiver, lease, transaction
<1>12. QED
      BY <1>1, <1>2, <1>3, <1>4, <1>5, <1>6, <1>7, <1>8, <1>9, <1>10, <1>11 DEF
         SuccessorStates

\* The inductive invariant holds in every reachable state.
THEOREM AuthorityInvHolds == AuthoritySpec => []AuthorityInv
<1>1. QED
      BY AuthorityInit, AuthorityNext, PTL DEF AuthoritySpec

\* The fields of ModelState keep their types; generations in memory (retired,
\* of the transaction, of the stable intent) were issued before.
THEOREM AuthorityTypeCorrect == AuthoritySpec => []TypeOK
<1>1. AuthorityInv => TypeOK
      BY DEF AuthorityInv
<1>2. QED
      BY <1>1, AuthorityInvHolds, PTL

\* _invariant_failures reports nothing in any state the transitions reach.
THEOREM AuthorityNeverFails == AuthoritySpec => []NoInvariantFailure
<1>1. AuthorityInv => NoInvariantFailure
      BY DEF AuthorityInv
<1>2. QED
      BY <1>1, AuthorityInvHolds, PTL

\* A step from a state of the inductive invariant keeps authority: the part of
\* the repository's statements that a predicate on single states cannot say.
LEMMA AuthorityStep ==
    AuthorityInv /\ [SuccessorStates]_modelState => [StepKeepsAuthority]_modelState
<1> SUFFICES ASSUME AuthorityInv, SuccessorStates PROVE StepKeepsAuthority
    BY DEF modelState
<1>0. Connect \/ Disconnect => NothingInFlight
      BY EndedGenerationKeepsNothing DEF Connect, Disconnect
<1> USE DEF AuthorityInv, TypeOK, NoInvariantFailure, ActiveIsNotRetired, LeaseIsOfActive,
        TransactionIsOfActive, AttemptsMatchOutcome, AttemptsAreSpent, StepKeepsAuthority,
        OWNERS, PHASES, NONTERMINAL, TERMINAL, transaction
<1>1. CASE Connect
      <2>1. transaction_phase = "uncertain" => UNCHANGED transaction
            BY <1>1 DEF Connect, EndActiveGeneration, InvalidateNonterminal
      <2>2. ~(hardware_attempts' > hardware_attempts)
            BY <1>1 DEF Connect, EndActiveGeneration, InvalidateNonterminal
      <2>3. active_generation' \notin retired'
            BY <1>1 DEF Connect, EndActiveGeneration
      <2>4. QED
            BY <1>0, <1>1, <2>1, <2>2, <2>3 DEF Connect, EndActiveGeneration,
               NothingInFlight
<1>2. CASE Disconnect
      <2>1. transaction_phase = "uncertain" => UNCHANGED transaction
            BY <1>2 DEF Disconnect, EndActiveGeneration, InvalidateNonterminal
      <2>2. ~(hardware_attempts' > hardware_attempts)
            BY <1>2 DEF Disconnect, EndActiveGeneration, InvalidateNonterminal
      <2>3. active_generation' \notin retired'
            BY <1>2 DEF Disconnect, EndActiveGeneration
      <2>4. QED
            BY <1>0, <1>2, <2>1, <2>2, <2>3 DEF Disconnect, EndActiveGeneration,
               NothingInFlight
<1>3. CASE Qualify
      BY <1>3 DEF Qualify, lease
<1>4. CASE AcquireLease("application") \/ AcquireLease("restoration")
      BY <1>4 DEF AcquireLease, receiver
<1>5. CASE ReleaseLease
      BY <1>5 DEF ReleaseLease, receiver
<1>6. CASE QueueTransaction
      BY <1>6 DEF QueueTransaction, receiver, lease
<1>7. CASE AuthorizeTransaction \/ ReserveTransport
      BY <1>7 DEF AuthorizeTransaction, ReserveTransport, Proceed, receiver, lease
<1>8. CASE DispatchSuccess \/ DispatchSafeFailure \/ DispatchUncertain
      BY <1>8 DEF DispatchSuccess, DispatchSafeFailure, DispatchUncertain, Dispatch,
         receiver, lease
<1>9. CASE CaptureStableIntent
      BY <1>9 DEF CaptureStableIntent, receiver, lease
<1>10. CASE ClearSafeTerminal
      BY <1>10 DEF ClearSafeTerminal, receiver, lease
<1>11. QED
      BY <1>1, <1>2, <1>3, <1>4, <1>5, <1>6, <1>7, <1>8, <1>9, <1>10 DEF SuccessorStates

\* In every behaviour an uncertain transaction stays as it is, the hardware is
\* tried only under current authority, and a retired generation never returns.
THEOREM AuthorityKept == AuthoritySpec => AuthorityIsKept
<1>1. QED
      BY AuthorityInvHolds, AuthorityStep, PTL DEF AuthoritySpec, AuthorityIsKept
=============================================================================
