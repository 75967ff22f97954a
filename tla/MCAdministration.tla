-------------------------- MODULE MCAdministration --------------------------
(* What administrators change while others act: accounts, with the visitors who   *)
(* register and sign in; the curriculum catalogue, with the seed script; reference *)
(* documents, with their ingestion and restarts; and the monitoring matrix, with   *)
(* the benchmark bundles that only administrators start.  Four parts without       *)
(* shared state, of which a behaviour runs one.                                    *)
EXTENDS Accounts, CurriculumCatalog, ReferenceDocuments, MonitoringMatrix, TLC

CONSTANTS r1, r2, e1, e2, i1, i2, o1, o2, c1, c2, d1, d2, m1

TwoRequests == {r1, r2}
TwoEmails == {e1, e2}
TwoIds == {i1, i2}
TwoObjectives == {o1, o2}
OneSeeded == {o1}
TwoCourses == {c1, c2}
OneSeededCourse == {c1}
OneMapping == {<<c1, o1>>}
OneCourseEach == (c1 :> "BSInfoTech") @@ (c2 :> "BSCS")
TwoDocuments == {d1, d2}
OneDocument == {d1}
OneModule == {m1}
SameModule == [d \in Documents |-> m1]
LowAndHigh == {1, 4}
Interchangeable == Permutations(TwoRequests) \cup Permutations(TwoEmails)

\* Two edits of the course that the seed script knows, and one of the other.
Catalogue == CatalogNext /\ mappings'[c2].version <= 2

VARIABLE part
MCInit ==
    /\ part \in {"accounts", "catalogue", "references", "matrix"}
    /\ AccountsInit /\ CatalogInit /\ AssetsInit /\ Init
MCNext ==
    /\ UNCHANGED part
    /\ \/ part = "accounts" /\ AccountsNext /\ UNCHANGED <<catalogVars, assetVars, vars>>
       \/ part = "catalogue" /\ Catalogue /\ UNCHANGED <<accountVars, assetVars, vars>>
       \/ part = "references" /\ AssetsNext /\ UNCHANGED <<accountVars, catalogVars, vars>>
       \/ part = "matrix" /\ Next /\ UNCHANGED <<accountVars, catalogVars, assetVars>>
MCSpec == MCInit /\ [][MCNext]_<<part, accountVars, catalogVars, assetVars, vars>>

\* Accounts: sessions are of approved accounts alone, and an account's data come from a
\* registration that was mailed to its address (auth/service.py, registration.py).
AccountsEarned == []SessionsOfApproved /\ VerifiedAsMailed

\* The curriculum: mappings name objectives of the course's program, and what an administrator
\* edited changes only with its audit row, the seed script's deletions included.
CatalogueStands == []MappingsFitPrograms /\ EditsAreAudited

\* Reference documents: the status says what the stores hold, and a document that a job cites
\* is not deleted (background.py, references.py).
DocumentsStand == StatusIsTrue /\ CitedSurvives
=============================================================================
