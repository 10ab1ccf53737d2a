------------------------ MODULE OutputDelivery_proofs ------------------------
(***************************************************************************)
(* Proofs about OutputDelivery, for any number of deliveries and readers,  *)
(* any plan and settings and any bounds: the types; that a package's proof *)
(* can be fetched; that a package is marked as deleted after its time      *)
(* only; that a manifest which is handed out is in the bucket; and, while  *)
(* no two deliveries overlap, that one marked as deleted is gone and that  *)
(* the artifacts of a completed job are those of one run.                  *)
(***************************************************************************)
EXTENDS OutputDelivery, TLAPS

\* The tuples of UNCHANGED are always expanded.
USE DEF artifacts, outputRows, deliveryLocals, outputBounds, OnManifest, At, Go

\* The steps at which the row of the manifest is marked.
Marking == {"delete", "deleteRedacted", "markFailed", "markDeleted"}

\* A row that is going to be marked exists.
HasManifest == \A d \in Delivery : step[d] \in Marking => manifest # None

\* A package that was read and found expired exists.
HasPackage == \A r \in Reader : asking[r] # None => packages[asking[r]] # None

TypeInv == TypeOK /\ HasManifest /\ HasPackage

-----------------------------------------------------------------------------
(* Types.                                                                  *)

\* A policy is what the plan's tier or the organisation's setting says.
LEMMA DefaultIsPolicy == DefaultPolicy \in Policy
  BY DEF DefaultPolicy, Policy

\* A job begins typed, without artifacts.
LEMMA TypeInit == ASSUME Init PROVE TypeInv
  BY DeliveryAssumption, DefaultIsPolicy
     DEF Init, TypeInv, TypeOK, HasManifest, HasPackage, Step, Marking, Variant

\* The steps of a run that touch neither the manifest's row nor its objects nor the packages.
LEMMA TypeRun ==
    ASSUME TypeInv, NEW d \in Delivery,
           Start(d) \/ Seal(d) \/ ResolvePolicy(d) \/ Expose(d) \/ PersistProof(d)
             \/ FailJob(d) \/ Charge(d) \/ Raise(d) \/ Crash(d)
    PROVE  TypeInv'
<1>1. UNCHANGED <<manifest, objects, packages, setting, clock, asking>>
  BY DEF Start, Seal, ResolvePolicy, Expose, PersistProof, FailJob, Charge, Raise, Crash
<1>2. PICK s \in Step : step' = [step EXCEPT ![d] = s] /\ (s \in Marking => step[d] \in Marking)
  <2>1. \A s \in OnRaise(step[d]) : s \in Step /\ (s \in Marking => step[d] \in Marking)
    BY DEF OnRaise, Step, Marking
  <2>2. CASE Raise(d)
    BY <2>1, <2>2 DEF Raise, Step, Marking
  <2>3. CASE Start(d) \/ Seal(d) \/ ResolvePolicy(d) \/ Expose(d)
    BY <2>3 DEF Start, Seal, ResolvePolicy, Expose, Step, Marking
  <2>4. CASE PersistProof(d) \/ FailJob(d) \/ Charge(d) \/ Crash(d)
    BY <2>4 DEF PersistProof, FailJob, Charge, Crash, Step, Marking
  <2> QED  BY <2>2, <2>3, <2>4
<1>3. /\ HasManifest' /\ HasPackage'
      /\ manifest' \in ManifestRow \cup {None} /\ objects' \subseteq Object
      /\ packages' \in [Variant -> Package \cup {None}]
      /\ setting' \in [days : Days \cup {None}, redact : BOOLEAN] \cup {None}
      /\ clock' \in Nat /\ step' \in [Delivery -> Step] /\ asking' \in [Reader -> Variant \cup {None}]
  BY <1>1, <1>2 DEF TypeInv, TypeOK, HasManifest, HasPackage
<1>4. status' \in {"queued", "processing", "completed", "failed"} /\ shown' \in Delivery \cup {None}
  BY DEF TypeInv, TypeOK, Start, Seal, ResolvePolicy, Expose, PersistProof, FailJob, Charge, Raise, Crash
<1>5. proofs' \subseteq Delivery /\ messages' \in Nat
  BY DEF TypeInv, TypeOK, Start, Seal, ResolvePolicy, Expose, PersistProof, Prove, FailJob, Charge, Raise, Crash
<1>6. policy' \in [Delivery -> Policy] /\ at' \in [Delivery -> Nat]
  <2>1. IF Museum /\ setting # None THEN setting \in Policy ELSE DefaultPolicy \in Policy
    BY DefaultIsPolicy DEF TypeInv, TypeOK, Policy
  <2> QED
    BY <2>1 DEF TypeInv, TypeOK, Start, Seal, ResolvePolicy, Expose, PersistProof, FailJob, Charge, Raise, Crash
<1>7. faults' \in Nat /\ crashes' \in Nat /\ duplicates' \in Nat /\ settings' \in Nat
  BY DEF TypeInv, TypeOK, Start, Seal, ResolvePolicy, Expose, PersistProof, FailJob, Charge, Raise, Crash
<1>8. overlapped' \in BOOLEAN /\ lapsed' \subseteq Variant
  BY DEF TypeInv, TypeOK, Start, Seal, ResolvePolicy, Expose, PersistProof, FailJob, Charge, Raise, Crash, InProgress
<1> QED  BY <1>3, <1>4, <1>5, <1>6, <1>7, <1>8 DEF TypeInv, TypeOK

\* The steps on the objects of the manifest.
LEMMA TypeObjects ==
    ASSUME TypeInv, NEW d \in Delivery,
           Store(d) \/ Classify(d) \/ StoreRedacted(d) \/ ClassifyRedacted(d)
             \/ DeleteObject(d) \/ DeleteRedacted(d)
    PROVE  TypeInv'
<1>1. UNCHANGED manifest /\ OnManifest
  BY DEF Store, Classify, StoreRedacted, ClassifyRedacted, DeleteObject, DeleteRedacted
<1>2. PICK s \in Step : step' = [step EXCEPT ![d] = s] /\ (s \in Marking => step[d] \in Marking)
  BY DEF Store, Classify, StoreRedacted, ClassifyRedacted, DeleteObject, DeleteRedacted, Step, Marking
<1>3. objects' \subseteq Object
  <2>1. \A copy \in {"full", "redacted"} : Others(Basename(d), copy) \subseteq Object
    BY DEF TypeInv, TypeOK, Others
  <2>2. \A copy \in {"full", "redacted"} :
           [name |-> Basename(d), copy |-> copy, days |-> policy[d].days, since |-> clock,
            labelled |-> FALSE] \in Object
    BY DEF TypeInv, TypeOK, Basename, Object, Copy, Policy
  <2>3. \A o \in objects : o \in Object /\ [o EXCEPT !.labelled = TRUE] \in Object
    BY DEF TypeInv, TypeOK, Object
  <2>4. CASE Store(d) \/ StoreRedacted(d)
    <3>1. PICK copy \in {"full", "redacted"} : Put(d, copy)
      BY <2>4 DEF Store, StoreRedacted
    <3>2. objects' = Others(Basename(d), copy)
                       \cup {[name |-> Basename(d), copy |-> copy, days |-> policy[d].days,
                              since |-> clock, labelled |-> FALSE]}
      BY <3>1 DEF Put
    <3> QED  BY <2>1, <2>2, <3>2
  <2>5. CASE Classify(d) \/ ClassifyRedacted(d)
    <3>1. PICK copy \in {"full", "redacted"} : Label(d, copy)
      BY <2>5 DEF Classify, ClassifyRedacted
    <3>2. \A p \in objects' : \E o \in objects : p = o \/ p = [o EXCEPT !.labelled = TRUE]
      BY <3>1 DEF Label
    <3> QED  BY <2>3, <3>2
  <2>6. CASE DeleteObject(d) \/ DeleteRedacted(d)
    BY <2>1, <2>6 DEF DeleteObject, DeleteRedacted
  <2> QED  BY <2>4, <2>5, <2>6
<1> QED  BY <1>1, <1>2, <1>3 DEF TypeInv, TypeOK, HasManifest, HasPackage

\* The steps on the row of the manifest.
LEMMA TypeRow ==
    ASSUME TypeInv, NEW d \in Delivery, UpsertManifest(d) \/ MarkDeleted(d) \/ MarkFailed(d)
    PROVE  TypeInv' /\ manifest' # None
<1>1. UNCHANGED objects /\ OnManifest
  BY DEF UpsertManifest, MarkDeleted, MarkFailed, Mark
<1>2. PICK s \in Step : step' = [step EXCEPT ![d] = s]
  BY DEF UpsertManifest, MarkDeleted, MarkFailed, Mark, Step
<1>3. manifest' \in ManifestRow
  <2>1. CASE UpsertManifest(d)
    <3>1. /\ policy[d].days \in Nat \cup {None} /\ policy[d].redact \in BOOLEAN /\ at[d] \in Nat
      BY DeliveryAssumption DEF TypeInv, TypeOK, Policy
    <3>2. (IF policy[d].days = None THEN None ELSE at[d] + policy[d].days) \in Nat \cup {None}
      BY <3>1
    <3> QED  BY <2>1, <3>1, <3>2 DEF UpsertManifest, Basename, ManifestRow
  <2>2. CASE MarkDeleted(d) \/ MarkFailed(d)
    <3>1. manifest \in ManifestRow
      BY <2>2 DEF MarkDeleted, MarkFailed, Mark, TypeInv, TypeOK, HasManifest, Marking
    <3> QED  BY <2>2, <3>1 DEF MarkDeleted, MarkFailed, Mark, ManifestRow
  <2> QED  BY <2>1, <2>2
<1>4. manifest' # None
  BY <1>3, NoneIsNoRow
<1> QED  BY <1>1, <1>2, <1>3, <1>4 DEF TypeInv, TypeOK, HasManifest, HasPackage

\* The steps on the packages.
LEMMA TypePackages ==
    ASSUME TypeInv,
           \/ \E d \in Delivery, x \in Variant : UpsertPackage(d, x)
           \/ \E r \in Reader : ExpirePackage(r)
           \/ \E r \in Reader, x \in Variant : ReadPackage(r, x)
    PROVE  TypeInv'
<1>1. CASE \E d \in Delivery, x \in Variant : UpsertPackage(d, x)
  <2>1. PICK d \in Delivery, x \in Variant : UpsertPackage(d, x)
    BY <1>1
  <2>2. [of |-> d, until |-> at[d] + PackageDays, deleted |-> FALSE] \in Package
    BY DeliveryAssumption DEF TypeInv, TypeOK, Package
  <2>3. /\ packages' \in [Variant -> Package \cup {None}]
        /\ \A y \in Variant : packages[y] # None => packages'[y] # None
    BY <2>1, <2>2, NoneIsNoRow DEF UpsertPackage, TypeInv, TypeOK
  <2>4. PICK s \in {"h264", "charge"} : step' = [step EXCEPT ![d] = s]
    BY <2>1 DEF UpsertPackage
  <2>5. HasPackage' /\ lapsed' \subseteq Variant
    BY <2>1, <2>3 DEF UpsertPackage, TypeInv, TypeOK, HasPackage
  <2>6. HasManifest' /\ step' \in [Delivery -> Step]
    BY <2>1, <2>4 DEF UpsertPackage, TypeInv, TypeOK, HasManifest, Step, Marking
  <2> QED  BY <2>1, <2>3, <2>5, <2>6 DEF UpsertPackage, TypeInv, TypeOK
<1>2. CASE \E r \in Reader : ExpirePackage(r)
  <2>1. PICK r \in Reader : ExpirePackage(r)
    BY <1>2
  <2>2. asking[r] \in Variant /\ packages[asking[r]] \in Package
    BY <2>1 DEF ExpirePackage, TypeInv, TypeOK, HasPackage
  <2>3. [packages[asking[r]] EXCEPT !.deleted = TRUE] \in Package
    BY <2>2 DEF Package
  <2>4. /\ packages' \in [Variant -> Package \cup {None}]
        /\ \A y \in Variant : packages[y] # None => packages'[y] # None
    BY <2>1, <2>2, <2>3, NoneIsNoRow DEF ExpirePackage, TypeInv, TypeOK
  <2>5. HasPackage' /\ asking' \in [Reader -> Variant \cup {None}]
    BY <2>1, <2>4 DEF ExpirePackage, TypeInv, TypeOK, HasPackage
  <2> QED  BY <2>1, <2>4, <2>5 DEF ExpirePackage, TypeInv, TypeOK, HasManifest
<1>3. CASE \E r \in Reader, x \in Variant : ReadPackage(r, x)
  BY <1>3 DEF ReadPackage, TypeInv, TypeOK, HasManifest, HasPackage
<1> QED  BY <1>1, <1>2, <1>3

\* The rest of the world, and stuttering.
LEMMA TypeWorld ==
    ASSUME TypeInv, UpdateSettings \/ Duplicate \/ Lifecycle \/ PassDay \/ UNCHANGED vars
    PROVE  TypeInv'
<1> USE DEF TypeInv, TypeOK, HasManifest, HasPackage
<1>1. CASE UpdateSettings
  BY <1>1 DEF UpdateSettings
<1>2. CASE Duplicate \/ PassDay
  BY <1>2 DEF Duplicate, PassDay
<1>3. CASE Lifecycle
  BY <1>3 DEF Lifecycle
<1>4. CASE UNCHANGED vars
  BY <1>4 DEF vars
<1> QED  BY <1>1, <1>2, <1>3, <1>4

\* Every step keeps the types.
LEMMA TypeStep == ASSUME TypeInv, [Next]_vars PROVE TypeInv'
  BY TypeRun, TypeObjects, TypeRow, TypePackages, TypeWorld DEF Next, FinalizeManifest

\* Rows, objects, locals and histories keep their types on every interleaving of any number of
\* deliveries: what is marked exists, a manifest's row or a package.
THEOREM TypeCorrect == Spec => [](TypeOK /\ HasManifest /\ HasPackage)
<1>1. Spec => []TypeInv
  BY TypeInit, TypeStep, PTL DEF Spec
<1> QED  BY <1>1, PTL DEF TypeInv

-----------------------------------------------------------------------------
(* Packages and their proofs.                                              *)

\* A run comes to its packages with its proof stored.
ProvedSoFar == \A d \in Delivery : step[d] \in {"av1", "h264"} => d \in proofs

\* No step takes a proof back, and a package names the proof of the run that made it.
LEMMA ProvedStep ==
    ASSUME TypeInv, ProvedSoFar, PackagesProved, [Next]_vars
    PROVE  ProvedSoFar' /\ PackagesProved'
<1> USE DEF ProvedSoFar, PackagesProved
<1>1. proofs \subseteq proofs'
  BY DEF Next, FinalizeManifest, Start, Seal, ResolvePolicy, Store, Classify, StoreRedacted,
         ClassifyRedacted, UpsertManifest, DeleteObject, DeleteRedacted, MarkDeleted, MarkFailed, Mark,
         Expose, PersistProof, Prove, UpsertPackage, FailJob, Charge, Raise, Crash, ReadPackage,
         ExpirePackage, UpdateSettings, Duplicate, Lifecycle, PassDay, vars
<1>2. ASSUME NEW d \in Delivery, PersistProof(d) PROVE ProvedSoFar' /\ PackagesProved'
  BY <1>2, <1>1 DEF PersistProof, Prove, TypeInv, TypeOK
<1>3. ASSUME NEW d \in Delivery, NEW x \in Variant, UpsertPackage(d, x)
      PROVE  ProvedSoFar' /\ PackagesProved'
  <2>1. d \in proofs /\ x \in {"av1", "h264"}
    BY <1>3 DEF UpsertPackage, Variant
  <2>2. step' = [step EXCEPT ![d] = IF x = "av1" THEN "h264" ELSE "charge"] /\ UNCHANGED proofs
    BY <1>3 DEF UpsertPackage
  <2>3. packages' = [packages EXCEPT ![x] = [of |-> d, until |-> at[d] + PackageDays, deleted |-> FALSE]]
    BY <1>3 DEF UpsertPackage
  <2>4. ProvedSoFar'
    BY <2>1, <2>2 DEF TypeInv, TypeOK
  <2>5. PackagesProved'
    BY <2>1, <2>2, <2>3 DEF TypeInv, TypeOK
  <2> QED  BY <2>4, <2>5
<1>4. ASSUME NEW r \in Reader, ExpirePackage(r) PROVE ProvedSoFar' /\ PackagesProved'
  <2>1. /\ asking[r] \in Variant /\ packages[asking[r]] \in Package /\ packages[asking[r]].of \in proofs
        /\ packages' = [packages EXCEPT ![asking[r]].deleted = TRUE]
        /\ UNCHANGED <<step, proofs>>
    BY <1>4 DEF ExpirePackage, TypeInv, TypeOK, HasPackage
  <2>2. packages'[asking[r]].of = packages[asking[r]].of
    BY <2>1 DEF TypeInv, TypeOK, Package
  <2> QED  BY <2>1, <2>2 DEF TypeInv, TypeOK
<1>5. CASE \/ \E d \in Delivery :
                Start(d) \/ Seal(d) \/ FinalizeManifest(d) \/ Expose(d) \/ FailJob(d) \/ Charge(d)
                  \/ Raise(d) \/ Crash(d)
           \/ \E r \in Reader, x \in Variant : ReadPackage(r, x)
           \/ UpdateSettings \/ Duplicate \/ Lifecycle \/ PassDay \/ UNCHANGED vars
  <2>1. UNCHANGED packages
    BY <1>5 DEF FinalizeManifest, Start, Seal, ResolvePolicy, Store, Classify, StoreRedacted,
         ClassifyRedacted, UpsertManifest, DeleteObject, DeleteRedacted, MarkDeleted, MarkFailed, Mark,
         Expose, FailJob, Charge, Raise, Crash, ReadPackage, UpdateSettings, Duplicate, Lifecycle,
         PassDay, vars
  <2>2. \A d \in Delivery : step'[d] \in {"av1", "h264"} => step[d] = step'[d]
    <3>1. \A s : OnRaise(s) \cap {"av1", "h264"} = {}
      BY DEF OnRaise
    <3>2. CASE \E d \in Delivery : Raise(d)
      BY <3>1, <3>2 DEF Raise, TypeInv, TypeOK
    <3>3. CASE \E d \in Delivery : Start(d) \/ Seal(d) \/ Expose(d) \/ FailJob(d) \/ Charge(d) \/ Crash(d)
      BY <3>3 DEF Start, Seal, Expose, FailJob, Charge, Crash, TypeInv, TypeOK
    <3>4. CASE \E d \in Delivery : FinalizeManifest(d)
      BY <3>4 DEF FinalizeManifest, ResolvePolicy, Store, Classify, StoreRedacted, ClassifyRedacted,
         UpsertManifest, DeleteObject, DeleteRedacted, MarkDeleted, MarkFailed, Mark, TypeInv, TypeOK
    <3>5. CASE \/ \E r \in Reader, x \in Variant : ReadPackage(r, x)
               \/ UpdateSettings \/ Duplicate \/ Lifecycle \/ PassDay \/ UNCHANGED vars
      BY <3>5 DEF ReadPackage, UpdateSettings, Duplicate, Lifecycle, PassDay, vars
    <3> QED  BY <1>5, <3>2, <3>3, <3>4, <3>5
  <2> QED  BY <1>1, <2>1, <2>2 DEF TypeInv, TypeOK
<1> QED  BY <1>2, <1>3, <1>4, <1>5 DEF Next

\* The deletion proof that a package names can be fetched, however runs replace packages and
\* proofs beside each other, break off or are repeated.
THEOREM PackagesAreProved == Spec => []PackagesProved
<1>1. Init => TypeInv /\ ProvedSoFar /\ PackagesProved
  BY TypeInit DEF Init, ProvedSoFar, PackagesProved
<1>2. TypeInv /\ ProvedSoFar /\ PackagesProved /\ [Next]_vars => (TypeInv /\ ProvedSoFar /\ PackagesProved)'
  BY TypeStep, ProvedStep
<1> QED  BY <1>1, <1>2, PTL DEF Spec

-----------------------------------------------------------------------------
(* The end of a package.                                                   *)

\* A package that a request has found expired is past its time, or was replaced since.
Past(x) == packages[x] # None => packages[x].until < clock \/ x \in lapsed
AskedIsPast == \A r \in Reader : asking[r] # None => Past(asking[r])

\* A package is made anew undeleted, and marked by a request that found it, or the one it
\* replaced, expired.
LEMMA ExpiryStep ==
    ASSUME TypeInv, AskedIsPast, DeletedWhenExpired, [Next]_vars
    PROVE  AskedIsPast' /\ DeletedWhenExpired'
<1> USE DEF AskedIsPast, Past, DeletedWhenExpired
<1>1. lapsed \subseteq lapsed' /\ clock <= clock' /\ clock \in Nat /\ clock' \in Nat
  <2>1. \/ \E d \in Delivery, x \in Variant : UpsertPackage(d, x)
        \/ UNCHANGED lapsed
    BY DEF Next, FinalizeManifest, Start, Seal, ResolvePolicy, Store, Classify, StoreRedacted,
         ClassifyRedacted, UpsertManifest, DeleteObject, DeleteRedacted, MarkDeleted, MarkFailed, Mark,
         Expose, PersistProof, FailJob, Charge, Raise, Crash, ReadPackage, ExpirePackage,
         UpdateSettings, Duplicate, Lifecycle, PassDay, vars
  <2>2. lapsed \subseteq lapsed'
    BY <2>1 DEF UpsertPackage
  <2>3. PassDay \/ UNCHANGED clock
    BY DEF Next, FinalizeManifest, Start, Seal, ResolvePolicy, Store, Classify, StoreRedacted,
         ClassifyRedacted, UpsertManifest, DeleteObject, DeleteRedacted, MarkDeleted, MarkFailed, Mark,
         Expose, PersistProof, UpsertPackage, FailJob, Charge, Raise, Crash, ReadPackage, ExpirePackage,
         UpdateSettings, Duplicate, Lifecycle, vars
  <2>4. clock \in Nat
    BY DEF TypeInv, TypeOK
  <2>5. clock' = clock \/ clock' = clock + 1
    BY <2>3 DEF PassDay
  <2> QED  BY <2>2, <2>4, <2>5
<1>2. \A x \in Variant : Past(x) /\ packages'[x] = packages[x] => Past(x)'
  <2> SUFFICES ASSUME NEW x \in Variant, Past(x), packages'[x] = packages[x], packages[x] # None
               PROVE  packages[x].until < clock' \/ x \in lapsed'
    OBVIOUS
  <2>1. packages[x].until \in Nat
    BY DEF TypeInv, TypeOK, Package
  <2> QED  BY <1>1, <2>1
<1>3. ASSUME NEW d \in Delivery, NEW x \in Variant, UpsertPackage(d, x)
      PROVE  AskedIsPast' /\ DeletedWhenExpired'
  <2>1. /\ packages' = [packages EXCEPT ![x] = [of |-> d, until |-> at[d] + PackageDays, deleted |-> FALSE]]
        /\ UNCHANGED <<asking, clock>>
        /\ packages[x] # None /\ packages[x].until < clock => x \in lapsed'
    BY <1>3 DEF UpsertPackage
  <2>2. \A r \in Reader : asking[r] = x => Past(x)'
    <3> SUFFICES ASSUME NEW r \in Reader, asking[r] = x
                 PROVE  x \in lapsed'
      OBVIOUS
    <3>1. packages[x] # None /\ Past(x)
      BY DeliveryAssumption DEF TypeInv, TypeOK, HasPackage, Variant
    <3> QED  BY <1>1, <2>1, <3>1
  <2>3. AskedIsPast'
    BY <1>2, <2>1, <2>2 DEF TypeInv, TypeOK
  <2>4. DeletedWhenExpired'
    BY <1>2, <2>1 DEF TypeInv, TypeOK
  <2> QED  BY <2>3, <2>4
<1>4. ASSUME NEW r \in Reader, ExpirePackage(r) PROVE AskedIsPast' /\ DeletedWhenExpired'
  <2>1. /\ asking[r] \in Variant /\ packages[asking[r]] \in Package
        /\ packages' = [packages EXCEPT ![asking[r]].deleted = TRUE]
        /\ asking' = [asking EXCEPT ![r] = None]
        /\ UNCHANGED <<clock, lapsed>>
    BY <1>4 DEF ExpirePackage, TypeInv, TypeOK, HasPackage
  <2>2. packages'[asking[r]].until = packages[asking[r]].until
    BY <2>1 DEF TypeInv, TypeOK, Package
  <2> DEFINE y == asking[r]
  <2>3. packages[y].until < clock \/ y \in lapsed
    <3>1. y \in Variant /\ packages[y] # None /\ asking[r] # None
      BY <1>4, <2>1, NoneIsNoRow DEF ExpirePackage
    <3> QED  BY <3>1
  <2>4. \A x \in Variant : Past(x) => Past(x)'
    <3> SUFFICES ASSUME NEW x \in Variant, Past(x) PROVE Past(x)'
      OBVIOUS
    <3>1. CASE x = y
      BY <2>1, <2>2, <2>3, <3>1
    <3>2. CASE x # y
      <4>1. packages'[x] = packages[x]
        BY <2>1, <3>2 DEF TypeInv, TypeOK
      <4> QED  BY <1>2, <4>1
    <3> QED  BY <3>1, <3>2
  <2>5. AskedIsPast'
    BY <2>1, <2>4 DEF TypeInv, TypeOK
  <2>6. DeletedWhenExpired'
    <3> SUFFICES ASSUME NEW x \in Variant, packages'[x] # None, packages'[x].deleted
                 PROVE  Past(x)
      BY <2>4
    <3>1. x # y => packages'[x] = packages[x]
      BY <2>1 DEF TypeInv, TypeOK
    <3> QED  BY <2>3, <3>1
  <2> QED  BY <2>5, <2>6
<1>5. ASSUME NEW r \in Reader, NEW x \in Variant, ReadPackage(r, x)
      PROVE  AskedIsPast' /\ DeletedWhenExpired'
  BY <1>5 DEF ReadPackage, Expired, TypeInv, TypeOK
<1>6. CASE \/ \E d \in Delivery :
                Start(d) \/ Seal(d) \/ FinalizeManifest(d) \/ Expose(d) \/ PersistProof(d) \/ FailJob(d)
                  \/ Charge(d) \/ Raise(d) \/ Crash(d)
           \/ UpdateSettings \/ Duplicate \/ Lifecycle \/ PassDay \/ UNCHANGED vars
  <2>1. UNCHANGED <<packages, asking>>
    BY <1>6 DEF FinalizeManifest, Start, Seal, ResolvePolicy, Store, Classify, StoreRedacted,
         ClassifyRedacted, UpsertManifest, DeleteObject, DeleteRedacted, MarkDeleted, MarkFailed, Mark,
         Expose, PersistProof, FailJob, Charge, Raise, Crash, UpdateSettings, Duplicate, Lifecycle,
         PassDay, vars
  <2> QED  BY <1>2, <2>1 DEF TypeInv, TypeOK
<1> QED  BY <1>3, <1>4, <1>5, <1>6 DEF Next

\* A package is marked as deleted after its time only, unless a new run's package overtook the
\* request that marks it.
THEOREM DeletedAfterExpiry == Spec => []DeletedWhenExpired
<1>1. Init => TypeInv /\ AskedIsPast /\ DeletedWhenExpired
  BY TypeInit DEF Init, AskedIsPast, Past, DeletedWhenExpired
<1>2. TypeInv /\ AskedIsPast /\ DeletedWhenExpired /\ [Next]_vars
        => (TypeInv /\ AskedIsPast /\ DeletedWhenExpired)'
  BY TypeStep, ExpiryStep
<1> QED  BY <1>1, <1>2, PTL DEF Spec

-----------------------------------------------------------------------------
(* What is handed out is stored.                                           *)

\* Until a run has written the row, the row is not its own.
Upcoming == {"idle", "run", "policy", "store", "label", "storeRedacted", "labelRedacted", "upsert"}
NotYetOwn ==
    \A d \in Delivery : step[d] \in Upcoming /\ manifest # None => manifest.name # d

\* The row's objects are deleted only when the row says that they are to be.
DeletesOwn ==
    \A d \in Delivery :
       step[d] \in {"delete", "deleteRedacted"} /\ manifest.name = d => manifest.deletion # None

\* What a run is about to record has been recorded in the past.
Timely == \A d \in Delivery : at[d] <= clock

\* The retention a run resolved is over by its own count ...
Lapsing(d) == policy[d].days \in Nat \ {0} /\ at[d] + policy[d].days <= clock

\* ... or the object it has stored, and perhaps classified, is still there.
Holds(d, copy, labelled) ==
    \/ Lapsing(d)
    \/ \E o \in objects :
          /\ o.name = d /\ o.copy = copy
          /\ o.days = policy[d].days /\ at[d] <= o.since
          /\ labelled => o.labelled

\* A run comes to the row with the objects of its manifest stored and classified.
StoredSoFar ==
    \A d \in Delivery :
       /\ step[d] = "label" => Holds(d, "full", FALSE)
       /\ step[d] \in {"storeRedacted", "labelRedacted", "upsert"} => Holds(d, "full", TRUE)
       /\ step[d] = "labelRedacted" => Holds(d, "redacted", FALSE)
       /\ step[d] = "upsert" /\ policy[d].redact => Holds(d, "redacted", TRUE)

\* The bucket keeps an object as long as the row hands it out.
Outlasts(o) ==
    o.days \in Nat \ {0} => manifest.expires \in Nat /\ manifest.expires <= o.since + o.days

Needed == IF manifest.redact THEN Copy ELSE {"full"}

Retained ==
    Served => \A copy \in Needed :
                 \E o \in objects :
                    o.name = manifest.name /\ o.copy = copy /\ o.labelled /\ Outlasts(o)

RetainInv == NotYetOwn /\ DeletesOwn /\ Timely /\ StoredSoFar /\ Retained

\* An object of before is there after the step, or the bucket's rule has taken it.
Stands(p, o) ==
    p.name = o.name /\ p.copy = o.copy /\ p.days = o.days /\ p.since = o.since /\ (o.labelled => p.labelled)
Survives(o) == (\E p \in objects' : Stands(p, o)) \/ Overdue(o)'

\* What a run holds it goes on holding while its own objects survive.
LEMMA HoldsOn ==
    ASSUME TypeInv, TypeInv', NEW e \in Delivery, NEW copy, NEW labelled \in BOOLEAN,
           policy'[e] = policy[e], at'[e] = at[e], clock <= clock',
           \A o \in objects : o.name = e /\ o.copy = copy => Survives(o),
           Holds(e, copy, labelled)
    PROVE  Holds(e, copy, labelled)'
<1> USE DeliveryAssumption
<1>1. clock \in Nat /\ clock' \in Nat /\ at[e] \in Nat /\ policy[e].days \in Nat \cup {None}
  BY DEF TypeInv, TypeOK, Policy
<1>2. CASE Lapsing(e)
  BY <1>1, <1>2 DEF Holds, Lapsing
<1>3. CASE ~Lapsing(e)
  <2>1. PICK o \in objects : /\ o.name = e /\ o.copy = copy
                             /\ o.days = policy[e].days /\ at[e] <= o.since
                             /\ labelled => o.labelled
    BY <1>3 DEF Holds
  <2>2. o.since \in Nat
    BY DEF TypeInv, TypeOK, Object
  <2>3. CASE \E p \in objects' : Stands(p, o)
    BY <2>1, <2>3 DEF Holds, Stands
  <2>4. CASE Overdue(o)'
    <3>1. policy[e].days \in Nat \ {0} /\ o.since + policy[e].days <= clock'
      BY <1>1, <2>1, <2>4 DEF Overdue
    <3>2. at[e] + policy[e].days <= clock'
      BY <1>1, <2>1, <2>2, <3>1
    <3> QED  BY <3>1, <3>2 DEF Holds, Lapsing
  <2> QED  BY <2>1, <2>3, <2>4 DEF Survives
<1> QED  BY <1>2, <1>3

\* What is handed out stays so while the row is the same and its objects survive.
LEMMA RetainedOn ==
    ASSUME TypeInv, TypeInv', Retained, manifest' = manifest, clock <= clock',
           \A o \in objects : Served /\ o.name = manifest.name => Survives(o)
    PROVE  Retained'
<1> USE DeliveryAssumption
<1>1. SUFFICES ASSUME Served', NEW copy \in Needed
               PROVE  \E p \in objects' :
                         p.name = manifest.name /\ p.copy = copy /\ p.labelled /\ Outlasts(p)'
  BY DEF Retained, Needed
<1>2. clock \in Nat /\ clock' \in Nat
  BY DEF TypeInv, TypeOK
<1>3. Served /\ manifest \in ManifestRow
  BY <1>1, <1>2 DEF Served, TypeInv, TypeOK, ManifestRow
<1>4. PICK o \in objects : o.name = manifest.name /\ o.copy = copy /\ o.labelled /\ Outlasts(o)
  BY <1>3 DEF Retained
<1>5. o.since \in Nat /\ o.days \in Nat \cup {None}
  BY DEF TypeInv, TypeOK, Object
<1>6. ~Overdue(o)'
  <2>1. SUFFICES ASSUME Overdue(o)' PROVE FALSE
    OBVIOUS
  <2>2. o.days \in Nat \ {0} /\ o.since + o.days <= clock'
    BY <1>5, <2>1 DEF Overdue
  <2>3. manifest.expires \in Nat /\ manifest.expires <= o.since + o.days
    BY <1>4, <2>2 DEF Outlasts
  <2>4. manifest.expires > clock'
    BY <1>1, <2>3 DEF Served
  <2> QED  BY <1>2, <1>5, <2>2, <2>3, <2>4
<1>7. PICK p \in objects' : Stands(p, o)
  BY <1>3, <1>4, <1>6 DEF Survives
<1> QED  BY <1>4, <1>7 DEF Stands, Outlasts

-----------------------------------------------------------------------------

\* A step that leaves the row, the objects and the time alone, and takes a run at most out of the
\* steps the invariant is about.
Critical == {"label", "storeRedacted", "labelRedacted", "upsert", "delete", "deleteRedacted"}
Leaves(e) ==
    \/ step'[e] = step[e] /\ at'[e] = at[e] /\ policy'[e] = policy[e]
    \/ step'[e] \notin Critical /\ (step'[e] \in Upcoming => step[e] \in Upcoming) /\ at'[e] <= clock

\* A step that leaves the manifest, its objects and the clock alone keeps what is retained.
LEMMA QuietStep ==
    ASSUME TypeInv, TypeInv', RetainInv, UNCHANGED <<manifest, objects, clock>>,
           \A e \in Delivery : Leaves(e)
    PROVE  RetainInv'
<1>1. NotYetOwn'
  BY DEF RetainInv, NotYetOwn, Leaves
<1>2. DeletesOwn'
  BY DEF RetainInv, DeletesOwn, Leaves, Critical
<1>3. Timely'
  BY DEF RetainInv, Timely, Leaves
<1>4. StoredSoFar'
  <2>1. \A e \in Delivery : step'[e] \in Critical =>
           step'[e] = step[e] /\ at'[e] = at[e] /\ policy'[e] = policy[e]
    BY DEF Leaves
  <2>2. \A e \in Delivery, copy \in Copy, labelled \in BOOLEAN :
           step'[e] \in Critical /\ Holds(e, copy, labelled) => Holds(e, copy, labelled)'
    BY <2>1 DEF Holds, Lapsing
  <2> QED  BY <2>1, <2>2 DEF RetainInv, StoredSoFar, Critical, Copy
<1>5. Retained'
  BY DEF RetainInv, Retained, Served, Needed, Outlasts
<1> QED  BY <1>1, <1>2, <1>3, <1>4, <1>5 DEF RetainInv

\* Most steps are of this kind.
LEMMA RetainQuiet ==
    ASSUME TypeInv, TypeInv', RetainInv,
           \/ \E d \in Delivery : \/ Start(d) \/ Seal(d) \/ ResolvePolicy(d) \/ Expose(d)
                                  \/ PersistProof(d) \/ FailJob(d) \/ Charge(d) \/ Raise(d) \/ Crash(d)
                                  \/ \E x \in Variant : UpsertPackage(d, x)
           \/ \E r \in Reader : ExpirePackage(r) \/ \E x \in Variant : ReadPackage(r, x)
           \/ UpdateSettings \/ Duplicate \/ UNCHANGED vars
    PROVE  RetainInv'
<1>1. UNCHANGED <<manifest, objects, clock>>
  BY DEF Start, Seal, ResolvePolicy, Expose, PersistProof, FailJob, Charge, Raise, Crash, UpsertPackage,
         ExpirePackage, ReadPackage, UpdateSettings, Duplicate, vars
<1>2. \A e \in Delivery : Leaves(e)
  <2>1. clock \in Nat /\ \A e \in Delivery : at[e] <= clock
    BY DEF RetainInv, Timely, TypeInv, TypeOK
  <2>2. ASSUME NEW d \in Delivery, Raise(d) PROVE \A e \in Delivery : Leaves(e)
    <3>1. \A s : OnRaise(s) \cap (Critical \cup Upcoming) = {}
      BY DEF OnRaise, Critical, Upcoming
    <3>2. UNCHANGED <<at, policy>> /\ \E s : /\ step' = [step EXCEPT ![d] = s]
                                             /\ s \notin Critical \cup Upcoming
      BY <2>2, <3>1 DEF Raise, Critical, Upcoming
    <3> QED  BY <2>1, <3>2 DEF Leaves, TypeInv, TypeOK
  <2>3. ASSUME NEW d \in Delivery, Start(d) \/ Seal(d) \/ ResolvePolicy(d) \/ Expose(d) \/ PersistProof(d)
        PROVE  \A e \in Delivery : Leaves(e)
    BY <2>1, <2>3 DEF Start, Seal, ResolvePolicy, Expose, PersistProof, Leaves, Critical, Upcoming, TypeInv, TypeOK
  <2>4. ASSUME NEW d \in Delivery, FailJob(d) \/ Charge(d) \/ Crash(d) \/ \E x \in Variant : UpsertPackage(d, x)
        PROVE  \A e \in Delivery : Leaves(e)
    BY <2>1, <2>4 DEF FailJob, Charge, Crash, UpsertPackage, Leaves, Critical, Upcoming, TypeInv, TypeOK
  <2>5. ASSUME UNCHANGED <<step, at, policy>> PROVE \A e \in Delivery : Leaves(e)
    BY <2>5 DEF Leaves
  <2> QED
    BY <2>2, <2>3, <2>4, <2>5 DEF ExpirePackage, ReadPackage, UpdateSettings, Duplicate, vars
<1> QED  BY <1>1, <1>2, QuietStep

\* Time passes, and the bucket's rule takes what it has made overdue.
LEMMA RetainTime ==
    ASSUME TypeInv, TypeInv', RetainInv, PassDay \/ Lifecycle
    PROVE  RetainInv'
<1>1. UNCHANGED <<manifest, step, at, policy>> /\ clock \in Nat /\ clock' \in Nat /\ clock <= clock'
  BY DEF PassDay, Lifecycle, TypeInv, TypeOK
<1>2. \A o \in objects : Survives(o)
  <2>1. CASE PassDay
    BY <2>1 DEF PassDay, Survives, Stands
  <2>2. CASE Lifecycle
    <3>1. PICK o \in objects : Overdue(o) /\ objects' = objects \ {o}
      BY <2>2 DEF Lifecycle
    <3>2. Overdue(o)'
      BY <2>2, <3>1 DEF Lifecycle, Overdue
    <3> QED  BY <3>1, <3>2 DEF Survives, Stands
  <2> QED  BY <2>1, <2>2
<1>3. NotYetOwn' /\ DeletesOwn'
  BY <1>1 DEF RetainInv, NotYetOwn, DeletesOwn
<1>4. Timely'
  BY <1>1 DEF RetainInv, Timely, TypeInv, TypeOK
<1>5. StoredSoFar'
  <2>1. \A e \in Delivery, copy \in Copy, labelled \in BOOLEAN :
           Holds(e, copy, labelled) => Holds(e, copy, labelled)'
    BY <1>1, <1>2, HoldsOn
  <2> QED  BY <1>1, <2>1 DEF RetainInv, StoredSoFar, Copy
<1>6. Retained'
  BY <1>1, <1>2, RetainedOn DEF RetainInv
<1> QED  BY <1>3, <1>4, <1>5, <1>6 DEF RetainInv

\* The steps on the objects: a run touches its own only, before its row is written or after the
\* row says that they are to be deleted.
LEMMA RetainObjects ==
    ASSUME TypeInv, TypeInv', RetainInv, NEW d \in Delivery,
           UNCHANGED manifest /\ OnManifest,
           NEW s \in Step, step' = [step EXCEPT ![d] = s],
           s \in Upcoming => step[d] \in Upcoming,
           s \in {"delete", "deleteRedacted"} => step[d] \in {"delete", "deleteRedacted"},
           step[d] \in Upcoming \cup {"delete", "deleteRedacted"},
           \A o \in objects : o.name # d => Survives(o),
           /\ s = "label" => Holds(d, "full", FALSE)'
           /\ s \in {"storeRedacted", "labelRedacted", "upsert"} => Holds(d, "full", TRUE)'
           /\ s = "labelRedacted" => Holds(d, "redacted", FALSE)'
           /\ s = "upsert" /\ policy[d].redact => Holds(d, "redacted", TRUE)'
    PROVE  RetainInv'
<1>1. step \in [Delivery -> Step] /\ clock \in Nat /\ clock <= clock'
  BY DEF TypeInv, TypeOK
<1>2. NotYetOwn' /\ DeletesOwn'
  BY <1>1 DEF RetainInv, NotYetOwn, DeletesOwn
<1>3. Timely'
  BY DEF RetainInv, Timely
<1>4. StoredSoFar'
  <2>1. \A e \in Delivery \ {d}, copy \in Copy, labelled \in BOOLEAN :
           Holds(e, copy, labelled) => Holds(e, copy, labelled)'
    BY <1>1, HoldsOn
  <2>2. \A e \in Delivery \ {d} : step'[e] = step[e] /\ policy'[e] = policy[e]
    BY <1>1
  <2> QED  BY <1>1, <2>1, <2>2 DEF RetainInv, StoredSoFar, Copy
<1>5. Retained'
  <2>1. Served => manifest.name # d
    <3>1. Served => manifest # None /\ manifest.deletion = None
      BY DEF Served
    <3> QED  BY <3>1 DEF RetainInv, NotYetOwn, DeletesOwn
  <2> QED  BY <1>1, <2>1, RetainedOn DEF RetainInv
<1> QED  BY <1>2, <1>3, <1>4, <1>5 DEF RetainInv

\* An upload leaves the object there, unclassified, and the others as they are.
LEMMA PutHolds ==
    ASSUME TypeInv, TypeInv', RetainInv, NEW d \in Delivery, NEW copy \in Copy, Put(d, copy),
           UNCHANGED <<policy, at, clock>>
    PROVE  /\ \A o \in objects : o.name # d \/ o.copy # copy => Survives(o)
           /\ Holds(d, copy, FALSE)'
<1>1. \A o \in objects : o.name # d \/ o.copy # copy => o \in objects'
  BY DEF Put, Others, Basename
<1>2. [name |-> d, copy |-> copy, days |-> policy[d].days, since |-> clock, labelled |-> FALSE] \in objects'
  BY DEF Put, Basename
<1>3. at[d] <= clock
  BY DEF RetainInv, Timely
<1>4. Holds(d, copy, FALSE)'
  BY <1>2, <1>3 DEF Holds
<1> QED  BY <1>1, <1>4 DEF Survives, Stands

\* Labelling loses nothing, and what was there is classified.
LEMMA LabelHolds ==
    ASSUME TypeInv, TypeInv', NEW d \in Delivery, NEW copy \in Copy, Label(d, copy),
           UNCHANGED <<policy, at, clock>>
    PROVE  /\ \A o \in objects : Survives(o)
           /\ Holds(d, copy, FALSE) => Holds(d, copy, TRUE)'
<1> DEFINE new(o) == IF o.name = d /\ o.copy = copy THEN [o EXCEPT !.labelled = TRUE] ELSE o
<1>1. \A o \in objects : new(o) \in objects'
  BY DEF Label, Basename
<1>2. \A o \in objects : Stands(new(o), o) /\ (o.name = d /\ o.copy = copy => new(o).labelled)
  BY DEF Stands, TypeInv, TypeOK, Object
<1> HIDE DEF new
<1>3. \A o \in objects : Survives(o)
  BY <1>1, <1>2 DEF Survives
<1>4. ASSUME Holds(d, copy, FALSE) PROVE Holds(d, copy, TRUE)'
  <2>1. CASE Lapsing(d)
    BY <2>1 DEF Holds, Lapsing
  <2>2. CASE ~Lapsing(d)
    <3>1. PICK o \in objects : /\ o.name = d /\ o.copy = copy
                               /\ o.days = policy[d].days /\ at[d] <= o.since
      BY <1>4, <2>2 DEF Holds
    <3>2. /\ new(o) \in objects' /\ new(o).name = d /\ new(o).copy = copy
          /\ new(o).days = policy'[d].days /\ at'[d] <= new(o).since /\ new(o).labelled
      BY <1>1, <1>2, <3>1 DEF Stands
    <3> QED  BY <3>2 DEF Holds
  <2> QED  BY <2>1, <2>2
<1> QED  BY <1>3, <1>4

\* What a run holds it holds on to in a step that leaves those objects alone.
LEMMA StillHolds ==
    ASSUME TypeInv, TypeInv', NEW d \in Delivery, NEW copy \in Copy, NEW labelled \in BOOLEAN,
           UNCHANGED <<policy, at, clock>>,
           \A o \in objects : o.name = d /\ o.copy = copy => Survives(o),
           Holds(d, copy, labelled)
    PROVE  Holds(d, copy, labelled)'
<1>1. clock <= clock'
  BY DEF TypeInv, TypeOK
<1> QED  BY <1>1, HoldsOn

\* The objects are stored, classified and deleted in this order.
LEMMA RetainStored ==
    ASSUME TypeInv, TypeInv', RetainInv, NEW d \in Delivery,
           \/ Store(d) \/ Classify(d) \/ StoreRedacted(d) \/ ClassifyRedacted(d)
           \/ DeleteObject(d) \/ DeleteRedacted(d)
    PROVE  RetainInv'
<1>1. UNCHANGED manifest /\ OnManifest /\ UNCHANGED <<policy, at, clock>>
  BY DEF Store, Classify, StoreRedacted, ClassifyRedacted, DeleteObject, DeleteRedacted
<1>2. CASE Store(d)
  <2>1. step[d] = "store" /\ step' = [step EXCEPT ![d] = "label"] /\ Put(d, "full")
    BY <1>2 DEF Store
  <2>2. (\A o \in objects : o.name # d => Survives(o)) /\ Holds(d, "full", FALSE)'
    BY <1>1, <2>1, PutHolds DEF Copy
  <2> QED  BY <1>1, <2>1, <2>2, RetainObjects DEF Step, Upcoming
<1>3. CASE Classify(d)
  <2>1. PICK s \in {"storeRedacted", "upsert"} :
           /\ step[d] = "label" /\ step' = [step EXCEPT ![d] = s] /\ Label(d, "full")
           /\ s = "upsert" => ~policy[d].redact
    BY <1>3 DEF Classify
  <2>2. (\A o \in objects : Survives(o)) /\ Holds(d, "full", TRUE)'
    BY <1>1, <2>1, LabelHolds DEF Copy, RetainInv, StoredSoFar
  <2> QED  BY <1>1, <2>1, <2>2, RetainObjects DEF Step, Upcoming
<1>4. CASE StoreRedacted(d)
  <2>1. step[d] = "storeRedacted" /\ step' = [step EXCEPT ![d] = "labelRedacted"] /\ Put(d, "redacted")
    BY <1>4 DEF StoreRedacted
  <2>2. /\ \A o \in objects : o.name # d \/ o.copy # "redacted" => Survives(o)
        /\ Holds(d, "redacted", FALSE)'
    BY <1>1, <2>1, PutHolds DEF Copy
  <2>3. Holds(d, "full", TRUE)'
    BY <1>1, <2>1, <2>2, StillHolds DEF Copy, RetainInv, StoredSoFar
  <2> QED  BY <1>1, <2>1, <2>2, <2>3, RetainObjects DEF Step, Upcoming
<1>5. CASE ClassifyRedacted(d)
  <2>1. step[d] = "labelRedacted" /\ step' = [step EXCEPT ![d] = "upsert"] /\ Label(d, "redacted")
    BY <1>5 DEF ClassifyRedacted
  <2>2. (\A o \in objects : Survives(o)) /\ Holds(d, "redacted", TRUE)'
    BY <1>1, <2>1, LabelHolds DEF Copy, RetainInv, StoredSoFar
  <2>3. Holds(d, "full", TRUE)'
    BY <1>1, <2>1, <2>2, StillHolds DEF Copy, RetainInv, StoredSoFar
  <2> QED  BY <1>1, <2>1, <2>2, <2>3, RetainObjects DEF Step, Upcoming
<1>6. CASE DeleteObject(d) \/ DeleteRedacted(d)
  <2>1. PICK s \in {"deleteRedacted", "markDeleted"} :
           step[d] \in {"delete", "deleteRedacted"} /\ step' = [step EXCEPT ![d] = s]
    BY <1>6 DEF DeleteObject, DeleteRedacted
  <2>2. \A o \in objects : o.name # d => o \in objects'
    BY <1>6 DEF DeleteObject, DeleteRedacted, Others, Basename
  <2>3. \A o \in objects : o.name # d => Survives(o)
    BY <2>2 DEF Survives, Stands
  <2> QED  BY <1>1, <2>1, <2>3, RetainObjects DEF Step, Upcoming
<1> QED  BY <1>2, <1>3, <1>4, <1>5, <1>6

-----------------------------------------------------------------------------

\* The row is written when its objects are there, for as long as the row says.
LEMMA RetainUpsert ==
    ASSUME TypeInv, TypeInv', RetainInv, NEW d \in Delivery, UpsertManifest(d)
    PROVE  RetainInv'
<1> USE DeliveryAssumption
<1> DEFINE days == policy[d].days
<1>1. /\ step[d] = "upsert" /\ step' = [step EXCEPT ![d] = IF days = 0 THEN "delete" ELSE "expose"]
      /\ UNCHANGED <<objects, clock, policy, at>>
      /\ manifest' = [of |-> d, name |-> d,
                      expires |-> IF days = None THEN None ELSE at[d] + days,
                      redact |-> policy[d].redact,
                      deletion |-> IF days = 0 THEN "pending" ELSE None]
  BY DEF UpsertManifest, Basename
<1>2. /\ step \in [Delivery -> Step] /\ clock \in Nat /\ at[d] \in Nat /\ days \in Nat \cup {None}
  BY DEF TypeInv, TypeOK, Policy
<1>3. NotYetOwn' /\ DeletesOwn'
  BY <1>1, <1>2 DEF RetainInv, NotYetOwn, DeletesOwn, Upcoming
<1>4. Timely'
  BY <1>1 DEF RetainInv, Timely
<1>5. StoredSoFar'
  <2>1. \A e \in Delivery, copy \in Copy, labelled \in BOOLEAN :
           Holds(e, copy, labelled) => Holds(e, copy, labelled)'
    BY <1>1 DEF Holds, Lapsing
  <2> QED  BY <1>1, <1>2, <2>1 DEF RetainInv, StoredSoFar, Copy
<1>6. Retained'
  <2>1. SUFFICES ASSUME Served', NEW copy \in Needed'
                 PROVE  \E o \in objects' :
                           o.name = manifest'.name /\ o.copy = copy /\ o.labelled /\ Outlasts(o)'
    BY DEF Retained
  <2>2. days # 0
    BY <1>1, <2>1 DEF Served
  <2>3. ~Lapsing(d)
    BY <1>1, <1>2, <2>1 DEF Served, Lapsing
  <2>4. Holds(d, copy, TRUE)
    BY <1>1, <2>1 DEF RetainInv, StoredSoFar, Needed, Copy
  <2>5. PICK o \in objects : /\ o.name = d /\ o.copy = copy /\ o.labelled
                             /\ o.days = days /\ at[d] <= o.since
    BY <2>3, <2>4 DEF Holds
  <2>6. Outlasts(o)'
    BY <1>1, <1>2, <2>5 DEF Outlasts, TypeInv, TypeOK, Object
  <2> QED  BY <1>1, <2>5, <2>6
<1> QED  BY <1>3, <1>4, <1>5, <1>6 DEF RetainInv

\* A row that is marked is no longer handed out.
LEMMA RetainMark ==
    ASSUME TypeInv, TypeInv', RetainInv, NEW d \in Delivery, MarkDeleted(d) \/ MarkFailed(d)
    PROVE  RetainInv'
<1> USE DeliveryAssumption
<1>1. PICK outcome \in {"deleted", "failed"}, next \in {"expose", "unmanifested"} :
         /\ step[d] \in {"markDeleted", "markFailed"} /\ step' = [step EXCEPT ![d] = next]
         /\ manifest' = [manifest EXCEPT !.deletion = outcome]
         /\ UNCHANGED <<objects, clock, policy, at>>
  BY DEF MarkDeleted, MarkFailed, Mark
<1>2. manifest \in ManifestRow /\ step \in [Delivery -> Step]
  BY <1>1 DEF TypeInv, TypeOK, HasManifest, Marking
<1>3. manifest # None /\ manifest'.name = manifest.name /\ manifest'.deletion = outcome /\ outcome # None
  BY <1>1, <1>2, NoneIsNoRow DEF ManifestRow
<1>4. NotYetOwn' /\ DeletesOwn'
  BY <1>1, <1>2, <1>3 DEF RetainInv, NotYetOwn, DeletesOwn, Upcoming
<1>5. Timely'
  BY <1>1 DEF RetainInv, Timely
<1>6. StoredSoFar'
  <2>1. \A e \in Delivery, copy \in Copy, labelled \in BOOLEAN :
           Holds(e, copy, labelled) => Holds(e, copy, labelled)'
    BY <1>1 DEF Holds, Lapsing
  <2> QED  BY <1>1, <1>2, <2>1 DEF RetainInv, StoredSoFar, Copy
<1>7. Retained'
  BY <1>3 DEF Retained, Served
<1> QED  BY <1>4, <1>5, <1>6, <1>7 DEF RetainInv

\* Every step keeps what is retained.
LEMMA RetainStep == ASSUME TypeInv, TypeInv', RetainInv, [Next]_vars PROVE RetainInv'
  BY RetainQuiet, RetainTime, RetainStored, RetainUpsert, RetainMark DEF Next, FinalizeManifest

\* A job begins without a manifest.
LEMMA RetainInit == ASSUME Init PROVE RetainInv
  BY DEF Init, RetainInv, NotYetOwn, DeletesOwn, Timely, StoredSoFar, Retained, Served

\* A manifest that is handed out has its objects in the bucket, classified, however many runs
\* overlap or break off, whatever the settings become and whenever the bucket's rules run.
THEOREM RetainedStored == Spec => []RetainedIsStored
<1>1. Init => TypeInv /\ RetainInv
  BY TypeInit, RetainInit
<1>2. TypeInv /\ RetainInv /\ [Next]_vars => (TypeInv /\ RetainInv)'
  BY TypeStep, RetainStep
<1>3. RetainInv => RetainedIsStored
  BY DEF RetainInv, Retained, RetainedIsStored, Needed
<1> QED  BY <1>1, <1>2, <1>3, PTL DEF Spec
-----------------------------------------------------------------------------
(* What is marked as deleted is gone, and what is delivered is whole.      *)

\* The objects of a run that stands at s: none before it stores them, the redacted one after the
\* full one and under a policy that asks for it, and none left when it marks the row as deleted.
Fits(s, redact, copy) ==
    /\ s \notin {"idle", "run", "policy", "store", "markDeleted"}
    /\ s \in {"label", "storeRedacted"} => copy = "full"
    /\ s \in {"labelRedacted", "upsert", "delete"} /\ copy = "redacted" => redact
    /\ s = "deleteRedacted" => copy = "redacted"
CopiesSoFar ==
    /\ \A o \in objects : Fits(step[o.name], policy[o.name].redact, o.copy)
    /\ \A d \in Delivery : step[d] = "storeRedacted" => policy[d].redact

\* The row's objects are those of the run that wrote it.
NamedOf == manifest # None => manifest.of = manifest.name

\* The artifacts of the job are those of one run.
Whole ==
    /\ shown \in proofs
    /\ manifest # None /\ manifest.of = shown
    /\ \A x \in Variant : packages[x] # None /\ packages[x].of = shown

Alone == \A d, e \in Delivery : InProgress(d) /\ InProgress(e) => d = e

\* What a run that is alone has made by the time it stands at a step.
Made(d) ==
    /\ step[d] \in Marking \cup {"expose", "proof", "av1", "h264"} => manifest # None /\ manifest.of = d
    /\ step[d] \in {"proof", "av1", "h264"} => shown = d
    /\ step[d] = "h264" => packages["av1"] # None /\ packages["av1"].of = d
    /\ step[d] = "charge" /\ status = "completed" => Whole

\* Until two runs have overlapped, the rows are of the one that is at work.
Solo == ~overlapped => Alone /\ \A d \in Delivery : Made(d)

SoloInv == CopiesSoFar /\ NamedOf /\ Solo /\ DeletedIsGone /\ DeliveredIsWhole

LEMMA SoloInit == ASSUME Init PROVE SoloInv
  BY DEF Init, SoloInv, CopiesSoFar, NamedOf, Solo, Alone, InProgress, Made, Marking, DeletedIsGone,
         DeliveredIsWhole

-----------------------------------------------------------------------------

\* A step of a run changes that run's place only; the objects are the same.
LEMMA CopiesMove ==
    ASSUME TypeInv, TypeInv', CopiesSoFar, NEW d \in Delivery, NEW s \in Step,
           step' = [step EXCEPT ![d] = s],
           \A e \in Delivery : e # d => policy'[e] = policy[e],
           \A o \in objects' : o.name # d => o \in objects,
           \A o \in objects' : o.name = d => Fits(s, policy'[d].redact, o.copy),
           s = "storeRedacted" => policy'[d].redact
    PROVE  CopiesSoFar'
<1>3. \A e \in Delivery : step'[e] = "storeRedacted" => policy'[e].redact
  BY DEF CopiesSoFar, TypeInv, TypeOK
<1> SUFFICES ASSUME NEW o \in objects' PROVE Fits(step'[o.name], policy'[o.name].redact, o.copy)
  BY <1>3 DEF CopiesSoFar
<1>1. o.name \in Delivery /\ step \in [Delivery -> Step]
  BY DEF TypeInv, TypeOK, Object
<1>2. CASE o.name = d
  BY <1>1, <1>2
<1>4. CASE o.name # d
  BY <1>1, <1>4 DEF CopiesSoFar
<1> QED  BY <1>2, <1>4

\* The steps that leave the objects alone.
LEMMA CopiesRun ==
    ASSUME TypeInv, TypeInv', CopiesSoFar, NEW d \in Delivery,
           \/ Start(d) \/ Seal(d) \/ ResolvePolicy(d) \/ UpsertManifest(d) \/ MarkDeleted(d)
           \/ MarkFailed(d) \/ Expose(d) \/ PersistProof(d) \/ FailJob(d) \/ Charge(d) \/ Raise(d)
           \/ Crash(d) \/ \E x \in Variant : UpsertPackage(d, x)
    PROVE  CopiesSoFar'
<1> USE DEF Step
<1>1. UNCHANGED objects
  BY DEF Start, Seal, ResolvePolicy, UpsertManifest, MarkDeleted, MarkFailed, Mark, Expose,
         PersistProof, FailJob, Charge, Raise, Crash, UpsertPackage
<1>2. \A o \in objects : o.name = d => Fits(step[d], policy[d].redact, o.copy)
  BY DEF CopiesSoFar
<1>3. policy \in [Delivery -> Policy]
  BY DEF TypeInv, TypeOK
<1>4. CASE Start(d) \/ Seal(d)
  BY <1>1, <1>2, <1>4, CopiesMove DEF Start, Seal, Fits
<1>5. CASE ResolvePolicy(d)
  BY <1>1, <1>2, <1>3, <1>5, CopiesMove DEF ResolvePolicy, Fits
<1>6. CASE UpsertManifest(d)
  <2>1. PICK s \in {"delete", "expose"} : step' = [step EXCEPT ![d] = s]
    BY <1>6 DEF UpsertManifest
  <2>2. step[d] = "upsert" /\ UNCHANGED policy
    BY <1>6 DEF UpsertManifest
  <2>3. \A o \in objects' : o.name = d => Fits(s, policy'[d].redact, o.copy)
    BY <1>1, <1>2, <2>1, <2>2 DEF Fits
  <2>4. /\ s \in Step /\ s # "storeRedacted"
        /\ \A o \in objects' : o.name # d => o \in objects
        /\ \A e \in Delivery : e # d => policy'[e] = policy[e]
    BY <1>1, <2>1, <2>2
  <2> HIDE DEF Step
  <2> QED  BY <2>1, <2>3, <2>4, CopiesMove
<1>7. CASE MarkDeleted(d) \/ MarkFailed(d)
  BY <1>1, <1>2, <1>7, CopiesMove DEF MarkDeleted, MarkFailed, Mark, Fits
<1>8. CASE Raise(d)
  <2>1. PICK s \in {"markFailed", "unpackaged", "rescue", "handler", "unmanifested", "over"} :
           step' = [step EXCEPT ![d] = s]
    BY <1>8 DEF Raise, OnRaise
  <2>2. UNCHANGED policy
    BY <1>8 DEF Raise
  <2> QED  BY <1>1, <1>2, <2>1, <2>2, CopiesMove DEF Fits
<1>9. CASE \/ Expose(d) \/ PersistProof(d) \/ FailJob(d) \/ Charge(d) \/ Crash(d)
           \/ \E x \in Variant : UpsertPackage(d, x)
  <2>1. PICK s \in {"proof", "charge", "av1", "h264", "over"} : step' = [step EXCEPT ![d] = s]
    BY <1>9 DEF Expose, PersistProof, FailJob, Charge, Crash, UpsertPackage
  <2>2. UNCHANGED policy
    BY <1>9 DEF Expose, PersistProof, FailJob, Charge, Crash, UpsertPackage
  <2> QED  BY <1>1, <1>2, <2>1, <2>2, CopiesMove DEF Fits
<1> QED  BY <1>4, <1>5, <1>6, <1>7, <1>8, <1>9

\* The steps on the objects: each run stores the full copy first and deletes what it has stored.
LEMMA CopiesStored ==
    ASSUME TypeInv, TypeInv', CopiesSoFar, NEW d \in Delivery,
           \/ Store(d) \/ Classify(d) \/ StoreRedacted(d) \/ ClassifyRedacted(d)
           \/ DeleteObject(d) \/ DeleteRedacted(d)
    PROVE  CopiesSoFar'
<1> USE DEF Step
<1>1. \A o \in objects : o.name = d => Fits(step[d], policy[d].redact, o.copy)
  BY DEF CopiesSoFar
<1>2. UNCHANGED policy
  BY DEF Store, Classify, StoreRedacted, ClassifyRedacted, DeleteObject, DeleteRedacted
<1>3. \A o \in objects : o.copy \in Copy
  BY DEF TypeInv, TypeOK, Object
<1>4. CASE Store(d) \/ StoreRedacted(d)
  <2>1. ASSUME NEW copy \in Copy, Put(d, copy)
        PROVE  \A o \in objects' : o \in objects \/ (o.name = d /\ o.copy = copy)
    BY <2>1 DEF Put, Others, Basename
  <2>2. CASE Store(d)
    <3>1. \A o \in objects' : o \in objects \/ (o.name = d /\ o.copy = "full")
      BY <2>1, <2>2 DEF Store, Copy
    <3>2. \A o \in objects : o.name # d
      BY <1>1, <2>2 DEF Store, Fits
    <3> QED  BY <1>2, <2>2, <3>1, <3>2, CopiesMove DEF Store, Fits
  <2>3. CASE StoreRedacted(d)
    <3>1. \A o \in objects' : o \in objects \/ (o.name = d /\ o.copy = "redacted")
      BY <2>1, <2>3 DEF StoreRedacted, Copy
    <3>2. policy[d].redact
      BY <2>3 DEF StoreRedacted, CopiesSoFar
    <3> QED  BY <1>1, <1>2, <2>3, <3>1, <3>2, CopiesMove DEF StoreRedacted, Fits
  <2> QED  BY <1>4, <2>2, <2>3
<1>5. CASE Classify(d) \/ ClassifyRedacted(d)
  <2>1. PICK copy \in Copy : Label(d, copy)
    BY <1>5 DEF Classify, ClassifyRedacted, Copy
  <2>2. \A p \in objects' : p.name # d => p \in objects
    BY <2>1 DEF Label, Basename, TypeInv, TypeOK, Object
  <2>3. \A p \in objects' : p.name = d => \E o \in objects : o.name = d /\ o.copy = p.copy
    BY <2>1 DEF Label, Basename, TypeInv, TypeOK, Object
  <2>4. \A p \in objects' : p.name = d => Fits(step[d], policy[d].redact, p.copy)
    BY <1>1, <2>3
  <2>5. CASE Classify(d)
    <3>1. PICK s \in {"storeRedacted", "upsert"} :
             /\ step[d] = "label" /\ step' = [step EXCEPT ![d] = s]
             /\ s = "storeRedacted" => policy[d].redact
      BY <2>5 DEF Classify
    <3>2. \A p \in objects' : p.name = d => Fits(s, policy'[d].redact, p.copy)
      BY <1>2, <2>4, <3>1 DEF Fits
    <3>3. (s = "storeRedacted" => policy'[d].redact) /\ s \in Step
      BY <1>2, <3>1
    <3>4. step' = [step EXCEPT ![d] = s] /\ \A e \in Delivery : e # d => policy'[e] = policy[e]
      BY <1>2, <3>1
    <3> HIDE DEF Step
    <3> QED  BY <2>2, <3>2, <3>3, <3>4, CopiesMove
  <2>6. CASE ClassifyRedacted(d)
    <3>1. step[d] = "labelRedacted" /\ step' = [step EXCEPT ![d] = "upsert"]
      BY <2>6 DEF ClassifyRedacted
    <3> QED  BY <1>2, <2>2, <2>4, <3>1, CopiesMove DEF Fits
  <2> QED  BY <1>5, <2>5, <2>6
<1>6. CASE DeleteObject(d)
  <2>1. objects' = {o \in objects : o.name # d \/ o.copy # "full"}
    BY <1>6 DEF DeleteObject, Others, Basename
  <2>2. \A o \in objects' : o.name = d => o.copy = "redacted" /\ policy[d].redact
    BY <1>1, <1>3, <1>6, <2>1 DEF DeleteObject, Fits, Copy
  <2>3. PICK s \in {"deleteRedacted", "markDeleted"} :
           step' = [step EXCEPT ![d] = s] /\ (policy[d].redact => s = "deleteRedacted")
    BY <1>6 DEF DeleteObject
  <2>4. \A o \in objects' : o.name = d => Fits(s, policy'[d].redact, o.copy)
    BY <2>2, <2>3 DEF Fits
  <2>5. /\ step' = [step EXCEPT ![d] = s] /\ s \in Step /\ s # "storeRedacted"
        /\ \A o \in objects' : o.name # d => o \in objects
        /\ \A e \in Delivery : e # d => policy'[e] = policy[e]
    BY <1>2, <2>1, <2>3
  <2> HIDE DEF Step
  <2> QED  BY <2>4, <2>5, CopiesMove
<1>7. CASE DeleteRedacted(d)
  <2>1. objects' = {o \in objects : o.name # d \/ o.copy # "redacted"}
    BY <1>7 DEF DeleteRedacted, Others, Basename
  <2>2. \A o \in objects' : o.name # d
    BY <1>1, <1>7, <2>1 DEF DeleteRedacted, Fits
  <2> QED  BY <1>2, <1>7, <2>1, <2>2, CopiesMove DEF DeleteRedacted
<1> QED  BY <1>4, <1>5, <1>6, <1>7
\* Objects are stored, classified, deleted and aged; every other step leaves them as they are.
LEMMA CopiesStep ==
    ASSUME TypeInv, TypeInv', CopiesSoFar, [Next]_vars
    PROVE  CopiesSoFar'
<1>1. CASE Lifecycle
  BY <1>1 DEF Lifecycle, CopiesSoFar
<1>2. CASE UpdateSettings \/ Duplicate \/ PassDay \/ UNCHANGED vars
  BY <1>2 DEF UpdateSettings, Duplicate, PassDay, vars, CopiesSoFar
<1>3. CASE \E r \in Reader : ExpirePackage(r) \/ \E x \in Variant : ReadPackage(r, x)
  BY <1>3 DEF ExpirePackage, ReadPackage, CopiesSoFar
<1> QED  BY <1>1, <1>2, <1>3, CopiesRun, CopiesStored DEF Next, FinalizeManifest

\* The row is written whole, and only its deletion marked.
LEMMA NamedStep == ASSUME TypeInv, NamedOf, [Next]_vars PROVE NamedOf'
<1>1. ASSUME NEW d \in Delivery, UpsertManifest(d) PROVE NamedOf'
  BY <1>1 DEF UpsertManifest, Basename, NamedOf
<1>2. ASSUME NEW d \in Delivery, MarkDeleted(d) \/ MarkFailed(d) PROVE NamedOf'
  <2>1. manifest \in ManifestRow /\ manifest # None
    BY <1>2, NoneIsNoRow DEF MarkDeleted, MarkFailed, Mark, TypeInv, TypeOK, HasManifest, Marking
  <2>2. manifest'.of = manifest.of /\ manifest'.name = manifest.name
    BY <1>2, <2>1 DEF MarkDeleted, MarkFailed, Mark, ManifestRow
  <2> QED  BY <2>1, <2>2 DEF NamedOf
<1>3. ASSUME UNCHANGED manifest PROVE NamedOf'
  BY <1>3 DEF NamedOf
<1> QED
  BY <1>1, <1>2, <1>3
     DEF Next, FinalizeManifest, Start, Seal, ResolvePolicy, Store, Classify, StoreRedacted,
         ClassifyRedacted, DeleteObject, DeleteRedacted, Expose, PersistProof, UpsertPackage, FailJob,
         Charge, Raise, Crash, ReadPackage, ExpirePackage, UpdateSettings, Duplicate, Lifecycle,
         PassDay, vars

\* A run marks its own row, when it has deleted its objects, and stores none under a name that is
\* in the row already.
LEMMA GoneStep ==
    ASSUME TypeInv, NotYetOwn, CopiesSoFar, NamedOf, Solo, DeletedIsGone, [Next]_vars
    PROVE  DeletedIsGone'
<1> USE DEF DeletedIsGone
<1>1. overlapped \in BOOLEAN /\ (overlapped => overlapped')
  BY DEF Next, FinalizeManifest, Start, Seal, ResolvePolicy, Store, Classify, StoreRedacted,
         ClassifyRedacted, UpsertManifest, DeleteObject, DeleteRedacted, MarkDeleted, MarkFailed, Mark,
         Expose, PersistProof, UpsertPackage, FailJob, Charge, Raise, Crash, ReadPackage, ExpirePackage,
         UpdateSettings, Duplicate, Lifecycle, PassDay, vars, TypeInv, TypeOK
<1>2. ASSUME NEW d \in Delivery, UpsertManifest(d) PROVE DeletedIsGone'
  BY <1>2, DeliveryAssumption DEF UpsertManifest
<1>3. ASSUME NEW d \in Delivery, MarkDeleted(d) PROVE DeletedIsGone'
  <2> SUFFICES ASSUME ~overlapped PROVE \A o \in objects : o.name # manifest'.name
    BY <1>1, <1>3 DEF MarkDeleted, Mark
  <2>1. step[d] = "markDeleted" /\ manifest' = [manifest EXCEPT !.deletion = "deleted"]
    BY <1>3 DEF MarkDeleted, Mark
  <2>2. manifest # None /\ manifest.of = d
    BY <2>1 DEF Solo, Made, Marking
  <2>3. manifest.name = d
    BY <2>2 DEF NamedOf
  <2>4. manifest'.name = d
    BY <2>1, <2>2, <2>3 DEF TypeInv, TypeOK, ManifestRow
  <2> QED  BY <2>1, <2>4 DEF CopiesSoFar, Fits
<1>4. ASSUME NEW d \in Delivery, MarkFailed(d) PROVE DeletedIsGone'
  <2>1. manifest \in ManifestRow
    BY <1>4 DEF MarkFailed, Mark, TypeInv, TypeOK, HasManifest, Marking
  <2> QED  BY <1>4, <2>1 DEF MarkFailed, Mark, ManifestRow
<1>5. ASSUME NEW d \in Delivery, Store(d) \/ StoreRedacted(d) PROVE DeletedIsGone'
  <2>1. manifest # None => manifest.name # d
    BY <1>5 DEF Store, StoreRedacted, NotYetOwn, Upcoming
  <2>2. UNCHANGED manifest /\ \A o \in objects' : o \in objects \/ o.name = d
    BY <1>5 DEF Store, StoreRedacted, Put, Others, Basename
  <2> QED  BY <1>1, <2>1, <2>2
<1>6. ASSUME NEW d \in Delivery, Classify(d) \/ ClassifyRedacted(d) PROVE DeletedIsGone'
  <2>1. \A p \in objects' : \E o \in objects : o.name = p.name
    BY <1>6 DEF Classify, ClassifyRedacted, Label, Basename, TypeInv, TypeOK, Object
  <2>2. UNCHANGED manifest
    BY <1>6 DEF Classify, ClassifyRedacted
  <2> QED  BY <1>1, <2>1, <2>2
<1>7. ASSUME UNCHANGED manifest, objects' \subseteq objects PROVE DeletedIsGone'
  BY <1>1, <1>7
<1>8. CASE Lifecycle \/ \E d \in Delivery : DeleteObject(d) \/ DeleteRedacted(d)
  BY <1>7, <1>8 DEF Lifecycle, DeleteObject, DeleteRedacted, Others
<1>9. CASE \/ \E d \in Delivery :
                \/ Start(d) \/ Seal(d) \/ ResolvePolicy(d) \/ Expose(d) \/ PersistProof(d)
                \/ FailJob(d) \/ Charge(d) \/ Raise(d) \/ Crash(d)
                \/ \E x \in Variant : UpsertPackage(d, x)
           \/ \E r \in Reader : ExpirePackage(r) \/ \E x \in Variant : ReadPackage(r, x)
           \/ UpdateSettings \/ Duplicate \/ PassDay \/ UNCHANGED vars
  BY <1>7, <1>9
     DEF Start, Seal, ResolvePolicy, Expose, PersistProof, UpsertPackage, FailJob, Charge, Raise,
         Crash, ReadPackage, ExpirePackage, UpdateSettings, Duplicate, PassDay, vars
<1> QED
  BY <1>2, <1>3, <1>4, <1>5, <1>6, <1>8, <1>9 DEF Next, FinalizeManifest

-----------------------------------------------------------------------------

\* While a run is alone, its step moves nobody else; it must leave what it owes for its new place,
\* and whole artifacts if it comes to its end with the job delivered.
LEMMA SoloMove ==
    ASSUME TypeInv, Solo, NEW d \in Delivery, InProgress(d), UNCHANGED overlapped,
           NEW s \in Step \ {"idle"}, step' = [step EXCEPT ![d] = s],
           ~overlapped => Made(d)',
           ~overlapped /\ s = "over" /\ messages' = 0 /\ status' = "completed" => Whole'
    PROVE  Solo' /\ DeliveredIsWhole'
<1>1. CASE overlapped
  BY <1>1 DEF Solo, DeliveredIsWhole
<1>2. CASE ~overlapped
  <2>1. \A e \in Delivery : e # d => step[e] \in {"idle", "over"} /\ step'[e] = step[e]
    BY <1>2 DEF Solo, Alone, InProgress, TypeInv, TypeOK
  <2>2. step'[d] = s
    BY DEF TypeInv, TypeOK
  <2>3. Alone'
    BY <2>1 DEF Alone, InProgress
  <2>4. \A e \in Delivery : Made(e)'
    BY <1>2, <2>1 DEF Made, Marking
  <2>5. DeliveredIsWhole'
    BY <1>2, <2>2 DEF DeliveredIsWhole, Settled, Whole, InProgress
  <2> QED  BY <2>3, <2>4, <2>5 DEF Solo
<1> QED  BY <1>1, <1>2

\* A delivery that begins is alone, or the history has it that two have overlapped.
LEMMA SoloStart ==
    ASSUME TypeInv, NEW d \in Delivery, Start(d)
    PROVE  Solo' /\ DeliveredIsWhole'
<1>1. step' = [step EXCEPT ![d] = "run"] /\ step'[d] = "run"
  BY DEF Start, TypeInv, TypeOK
<1>2. ~overlapped' => \A e \in Delivery : step[e] \in {"idle", "over"}
  BY DEF Start, InProgress
<1>3. ~overlapped' => \A e \in Delivery : step'[e] \in {"idle", "over", "run"} /\ (InProgress(e)' => e = d)
  BY <1>1, <1>2 DEF InProgress, TypeInv, TypeOK
<1>4. Solo'
  BY <1>3 DEF Solo, Alone, Made, Marking
<1>5. InProgress(d)'
  BY <1>1 DEF InProgress
<1> QED  BY <1>4, <1>5 DEF DeliveredIsWhole, Settled

\* The way to the row of the manifest: nothing is owed before it is written.
LEMMA SoloManifest ==
    ASSUME TypeInv, Solo, NEW d \in Delivery, Seal(d) \/ FinalizeManifest(d)
    PROVE  Solo' /\ DeliveredIsWhole'
<1> USE DEF InProgress, Step, Made, Marking
<1>1. CASE Seal(d)
  <2>1. PICK s \in {"policy", "charge"} :
           step' = [step EXCEPT ![d] = s] /\ (s = "charge" => status' = "failed")
    BY <1>1 DEF Seal
  <2>2. Made(d)'
    BY <2>1 DEF TypeInv, TypeOK
  <2> QED  BY <1>1, <2>1, <2>2, SoloMove DEF Seal
<1>2. CASE \/ ResolvePolicy(d) \/ Store(d) \/ Classify(d) \/ StoreRedacted(d) \/ ClassifyRedacted(d)
  <2>1. PICK s \in {"store", "label", "storeRedacted", "labelRedacted", "upsert"} :
           step' = [step EXCEPT ![d] = s]
    BY <1>2 DEF ResolvePolicy, Store, Classify, StoreRedacted, ClassifyRedacted
  <2>2. step[d] \notin {"idle", "over"} /\ UNCHANGED overlapped
    BY <1>2 DEF ResolvePolicy, Store, Classify, StoreRedacted, ClassifyRedacted
  <2>3. Made(d)'
    BY <2>1 DEF TypeInv, TypeOK
  <2> QED  BY <2>1, <2>2, <2>3, SoloMove
<1>3. CASE UpsertManifest(d)
  <2>1. PICK s \in {"delete", "expose"} : step' = [step EXCEPT ![d] = s]
    BY <1>3 DEF UpsertManifest
  <2>2. manifest' # None /\ manifest'.of = d
    BY <1>3, TypeRow DEF UpsertManifest
  <2>3. Made(d)'
    BY <2>1, <2>2 DEF TypeInv, TypeOK
  <2> QED  BY <1>3, <2>1, <2>3, SoloMove DEF UpsertManifest
<1>4. CASE DeleteObject(d) \/ DeleteRedacted(d)
  <2>1. PICK s \in {"deleteRedacted", "markDeleted"} : step' = [step EXCEPT ![d] = s]
    BY <1>4 DEF DeleteObject, DeleteRedacted
  <2>2. step[d] \in {"delete", "deleteRedacted"} /\ UNCHANGED <<overlapped, manifest>>
    BY <1>4 DEF DeleteObject, DeleteRedacted
  <2>3. ~overlapped => Made(d)'
    BY <2>1, <2>2 DEF Solo, TypeInv, TypeOK
  <2> QED  BY <2>1, <2>2, <2>3, SoloMove
<1>5. CASE MarkDeleted(d) \/ MarkFailed(d)
  <2>1. PICK s \in {"expose", "unmanifested"} : step' = [step EXCEPT ![d] = s]
    BY <1>5 DEF MarkDeleted, MarkFailed, Mark
  <2>2. step[d] \in {"markDeleted", "markFailed"} /\ UNCHANGED overlapped
    BY <1>5 DEF MarkDeleted, MarkFailed, Mark
  <2>3. manifest \in ManifestRow
    BY <2>2 DEF TypeInv, TypeOK, HasManifest
  <2>4. manifest' # None /\ manifest'.of = manifest.of
    BY <1>5, <2>3, TypeRow DEF MarkDeleted, MarkFailed, Mark, ManifestRow
  <2>5. ~overlapped => Made(d)'
    BY <2>1, <2>2, <2>4 DEF Solo, TypeInv, TypeOK
  <2> QED  BY <2>1, <2>2, <2>5, SoloMove
<1> QED  BY <1>1, <1>2, <1>3, <1>4, <1>5 DEF FinalizeManifest

\* From the row to the end: the proof and both packages come before the charge of a job that is
\* still delivered, and whoever breaks off fails the job or leaves a message.
LEMMA SoloArtifacts ==
    ASSUME TypeInv, ProvedSoFar, Solo, NEW d \in Delivery,
           \/ Expose(d) \/ PersistProof(d) \/ FailJob(d) \/ Charge(d) \/ Raise(d) \/ Crash(d)
           \/ \E x \in Variant : UpsertPackage(d, x)
    PROVE  Solo' /\ DeliveredIsWhole'
<1> USE DEF InProgress, Step, Made, Marking
<1>1. CASE Expose(d)
  <2>1. PICK s \in {"proof", "charge"} :
           step' = [step EXCEPT ![d] = s] /\ (s = "charge" => status' # "completed")
    BY <1>1 DEF Expose
  <2>2. /\ step[d] = "expose" /\ shown' = d /\ UNCHANGED <<overlapped, manifest>>
    BY <1>1 DEF Expose
  <2>3. ~overlapped => Made(d)'
    BY <2>1, <2>2 DEF Solo, TypeInv, TypeOK
  <2> QED  BY <2>1, <2>2, <2>3, SoloMove
<1>2. CASE PersistProof(d)
  <2>1. /\ step[d] = "proof" /\ step' = [step EXCEPT ![d] = "av1"]
        /\ UNCHANGED <<overlapped, manifest, shown>>
    BY <1>2 DEF PersistProof
  <2>2. ~overlapped => Made(d)'
    BY <2>1 DEF Solo, TypeInv, TypeOK
  <2> QED  BY <2>1, <2>2, SoloMove
<1>3. ASSUME NEW x \in Variant, UpsertPackage(d, x) PROVE Solo' /\ DeliveredIsWhole'
  <2>1. /\ step[d] = x /\ step' = [step EXCEPT ![d] = IF x = "av1" THEN "h264" ELSE "charge"]
        /\ packages' = [packages EXCEPT ![x] = [of |-> d, until |-> at[d] + PackageDays, deleted |-> FALSE]]
        /\ UNCHANGED <<overlapped, manifest, shown, proofs>>
    BY <1>3 DEF UpsertPackage
  <2>2. [of |-> d, until |-> at[d] + PackageDays, deleted |-> FALSE] \in Package
    BY DeliveryAssumption DEF TypeInv, TypeOK, Package
  <2>3. packages'[x] # None /\ packages'[x].of = d
    BY <2>1, <2>2, NoneIsNoRow DEF TypeInv, TypeOK
  <2>4. CASE x = "av1"
    <3>1. ~overlapped => Made(d)'
      BY <2>1, <2>3, <2>4 DEF Solo, TypeInv, TypeOK
    <3> QED  BY <2>1, <2>4, <3>1, SoloMove
  <2>5. CASE x = "h264"
    <3>1. ~overlapped => /\ manifest # None /\ manifest.of = d /\ shown = d
                         /\ packages["av1"] # None /\ packages["av1"].of = d
      BY <2>1, <2>5 DEF Solo
    <3>2. packages'["av1"] = packages["av1"]
      BY <2>1, <2>5 DEF TypeInv, TypeOK, Variant
    <3>3. d \in proofs
      BY <2>1, <2>5 DEF ProvedSoFar
    <3>4. ~overlapped => Whole'
      BY <2>1, <2>3, <2>5, <3>1, <3>2, <3>3 DEF Whole, Variant
    <3>5. ~overlapped => Made(d)'
      BY <2>1, <2>5, <3>4 DEF TypeInv, TypeOK
    <3> QED  BY <2>1, <2>5, <3>5, SoloMove
  <2> QED  BY <2>4, <2>5 DEF Variant
<1>4. CASE FailJob(d)
  <2>1. PICK s \in {"over", "charge"} : step' = [step EXCEPT ![d] = s]
    BY <1>4 DEF FailJob
  <2>2. Made(d)'
    BY <1>4, <2>1 DEF FailJob, TypeInv, TypeOK
  <2> QED  BY <1>4, <2>1, <2>2, SoloMove DEF FailJob
<1>5. CASE Charge(d)
  <2>1. /\ step[d] = "charge" /\ step' = [step EXCEPT ![d] = "over"]
        /\ UNCHANGED <<overlapped, status, shown, manifest, proofs, packages>>
    BY <1>5 DEF Charge
  <2>2. ~overlapped /\ status' = "completed" => Whole'
    BY <2>1 DEF Solo, Whole
  <2>3. Made(d)'
    BY <2>1 DEF TypeInv, TypeOK
  <2> QED  BY <2>1, <2>2, <2>3, SoloMove
<1>6. CASE Raise(d)
  <2>1. PICK s \in {"markFailed", "unpackaged", "rescue", "handler", "unmanifested", "over"} :
           /\ step' = [step EXCEPT ![d] = s]
           /\ s = "markFailed" => step[d] \in {"delete", "deleteRedacted"}
           /\ s = "over" => messages' = messages + 1
    BY <1>6 DEF Raise, OnRaise
  <2>2. step[d] \notin {"idle", "over"} /\ UNCHANGED <<overlapped, manifest>> /\ messages \in Nat
    BY <1>6 DEF Raise, TypeInv, TypeOK
  <2>3. ~overlapped => Made(d)'
    BY <2>1, <2>2 DEF Solo, TypeInv, TypeOK
  <2>4. s = "over" => messages' # 0
    BY <2>1, <2>2
  <2> QED  BY <2>1, <2>2, <2>3, <2>4, SoloMove
<1>7. CASE Crash(d)
  <2>1. /\ step[d] \notin {"idle", "over"} /\ step' = [step EXCEPT ![d] = "over"]
        /\ UNCHANGED overlapped /\ messages' = messages + 1 /\ messages \in Nat
    BY <1>7 DEF Crash, TypeInv, TypeOK
  <2>2. Made(d)' /\ messages' # 0
    BY <2>1 DEF TypeInv, TypeOK
  <2> QED  BY <2>1, <2>2, SoloMove
<1> QED  BY <1>1, <1>2, <1>3, <1>4, <1>5, <1>6, <1>7

\* The requests, the settings, the queue, the bucket and the time leave the rows to their run.
LEMMA SoloWorld ==
    ASSUME TypeInv, Solo, DeliveredIsWhole,
           \/ \E r \in Reader : ExpirePackage(r) \/ \E x \in Variant : ReadPackage(r, x)
           \/ UpdateSettings \/ Duplicate \/ Lifecycle \/ PassDay \/ UNCHANGED vars
    PROVE  Solo' /\ DeliveredIsWhole'
<1>1. /\ UNCHANGED <<step, overlapped, status, shown, manifest, proofs>>
      /\ messages \in Nat /\ messages' \in {messages, messages + 1}
  BY DEF ExpirePackage, ReadPackage, UpdateSettings, Duplicate, Lifecycle, PassDay, vars, TypeInv, TypeOK
<1>2. \A x \in Variant : packages[x] # None => packages'[x] # None /\ packages'[x].of = packages[x].of
  <2>1. ASSUME NEW r \in Reader, ExpirePackage(r)
        PROVE  \A x \in Variant :
                  packages[x] # None => packages'[x] # None /\ packages'[x].of = packages[x].of
    <3>1. /\ asking[r] \in Variant /\ packages[asking[r]] \in Package
          /\ packages' = [packages EXCEPT ![asking[r]].deleted = TRUE]
      BY <2>1 DEF ExpirePackage, TypeInv, TypeOK, HasPackage
    <3>2. packages' = [packages EXCEPT ![asking[r]] = [packages[asking[r]] EXCEPT !.deleted = TRUE]]
      BY <3>1
    <3>3. [packages[asking[r]] EXCEPT !.deleted = TRUE] \in Package
      BY <3>1 DEF Package
    <3>4. [packages[asking[r]] EXCEPT !.deleted = TRUE].of = packages[asking[r]].of
      BY <3>1 DEF Package
    <3> QED  BY <3>1, <3>2, <3>3, <3>4, NoneIsNoRow DEF TypeInv, TypeOK
  <2>2. ASSUME UNCHANGED packages
        PROVE  \A x \in Variant :
                  packages[x] # None => packages'[x] # None /\ packages'[x].of = packages[x].of
    BY <2>2
  <2> QED  BY <2>1, <2>2 DEF ReadPackage, UpdateSettings, Duplicate, Lifecycle, PassDay, vars
<1>3. Whole => Whole'
  BY <1>1, <1>2 DEF Whole
<1>4. Alone => Alone'
  BY <1>1 DEF Alone, InProgress
<1>5. \A d \in Delivery : Made(d) => Made(d)'
  BY <1>1, <1>2, <1>3 DEF Made, Variant
<1>6. Settled' => Settled
  BY <1>1 DEF Settled, InProgress
<1>7. DeliveredIsWhole'
  BY <1>1, <1>3, <1>6 DEF DeliveredIsWhole, Whole
<1>8. Solo'
  BY <1>1, <1>4, <1>5 DEF Solo
<1> QED  BY <1>7, <1>8

\* Every step of a run that is alone leaves the rows its own.
LEMMA SoloStep ==
    ASSUME TypeInv, ProvedSoFar, Solo, DeliveredIsWhole, [Next]_vars
    PROVE  Solo' /\ DeliveredIsWhole'
  BY SoloStart, SoloManifest, SoloArtifacts, SoloWorld DEF Next

OutputInv == TypeInv /\ RetainInv /\ ProvedSoFar /\ PackagesProved /\ SoloInv

\* The whole invariant is inductive.
LEMMA OutputInvariant == Spec => []OutputInv
<1>1. Init => OutputInv
  <2>1. Init => ProvedSoFar /\ PackagesProved
    BY DEF Init, ProvedSoFar, PackagesProved
  <2> QED  BY <2>1, TypeInit, RetainInit, SoloInit DEF OutputInv
<1>2. OutputInv /\ [Next]_vars => OutputInv'
  <2> SUFFICES ASSUME OutputInv, [Next]_vars PROVE OutputInv'
    OBVIOUS
  <2>1. TypeInv' /\ ProvedSoFar' /\ PackagesProved'
    BY TypeStep, ProvedStep DEF OutputInv
  <2>2. RetainInv'
    BY <2>1, RetainStep DEF OutputInv
  <2>3. CopiesSoFar' /\ NamedOf' /\ Solo' /\ DeliveredIsWhole'
    BY <2>1, CopiesStep, NamedStep, SoloStep DEF OutputInv, SoloInv
  <2>4. DeletedIsGone'
    BY GoneStep DEF OutputInv, SoloInv, RetainInv
  <2> QED  BY <2>1, <2>2, <2>3, <2>4 DEF OutputInv, SoloInv
<1> QED  BY <1>1, <1>2, PTL DEF Spec

\* A manifest marked as deleted has left nothing in the bucket, wherever an exception or a crash
\* breaks its run off, unless two deliveries have overlapped.
THEOREM MarkedIsGone == Spec => []DeletedIsGone
<1>1. OutputInv => DeletedIsGone
  BY DEF OutputInv, SoloInv
<1> QED  BY <1>1, OutputInvariant, PTL

\* A job at rest as delivered shows the manifest of its row and has both packages and the proof of
\* that run, however many runs broke off before it, unless two overlapped.
THEOREM DeliveredWhole == Spec => []DeliveredIsWhole
<1>1. OutputInv => DeliveredIsWhole
  BY DEF OutputInv, SoloInv
<1> QED  BY <1>1, OutputInvariant, PTL
=============================================================================
