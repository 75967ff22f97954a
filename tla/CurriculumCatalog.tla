-------------------------- MODULE CurriculumCatalog --------------------------
(* The curriculum catalogue: objectives, the objectives mapped to each course and their   *)
(* history.  Administrators edit both (curriculum/management.py) while the seed script    *)
(* converges the rows nobody has edited (scripts/seed_curriculum_map.py).  READ           *)
(* COMMITTED, a transaction each.  SELECT ... FOR UPDATE waits for a row and reads it     *)
(* fresh; a version that has moved on refuses the edit.                                   *)
(*                                                                                        *)
(* BSIT is read as BSInfoTech by both, so it is one program here.  An objective is known  *)
(* by its identity and its seed anchor; administrators' codes stay clear of the seed's.   *)
EXTENDS Integers, FiniteSets

CONSTANTS
    Objectives, Courses,
    Seeded,         \* objectives of the seed payload
    SeededCourses,  \* courses of the seed payload
    Canonical,      \* the mappings of the payload
    CourseProgram,  \* the program of each course
    Editors,        \* administrators' requests served at one time
    MaxVersion,     \* bound: versions of an objective
    MaxSetVersion   \* bound: versions of a set of mappings

InfoTech == "BSInfoTech"
Programs == {InfoTech, "BSCS"}

ASSUME CatalogAssumption ==
    /\ Seeded \subseteq Objectives /\ SeededCourses \subseteq Courses
    /\ Canonical \subseteq SeededCourses \X Seeded
    /\ CourseProgram \in [Courses -> Programs]
    /\ \A c \in SeededCourses : CourseProgram[c] = InfoTech
    /\ MaxVersion \in Nat \ {0} /\ MaxSetVersion \in Nat \ {0}

VARIABLES
    objectives,   \* the rows of curriculum_objectives
    mappings,     \* the objectives mapped to each course, and the version of the set
    change,       \* the latest row of curriculum_changes
    edit,         \* the local state of each request
    seeding       \* rows that the seed script has locked, as it will leave them

catalogVars == <<objectives, mappings, change, edit, seeding>>

Objective == [program : Programs, seedText : BOOLEAN, version : 1..MaxVersion, managed : BOOLEAN]
MappingSet == [entries : SUBSET Objectives, version : 1..MaxSetVersion, managed : BOOLEAN]

NoEntity == [entity |-> "none"]
Waiting == [step |-> "idle"]
NotSeeding == [rows |-> <<>>, courses |-> <<>>]

CatalogInit ==
    /\ objectives = <<>>
    /\ mappings = [c \in Courses |-> [entries |-> {}, version |-> 1, managed |-> FALSE]]
    /\ change = NoEntity
    /\ edit = [r \in Editors |-> Waiting]
    /\ seeding = NotSeeding

HasRow(o) == o \in DOMAIN objectives
Put(rows, x, row) == [y \in DOMAIN rows \cup {x} |-> IF y = x THEN row ELSE rows[y]]
EditStep(r, step) == edit[r].step = step
EndEdit(r) == edit' = [edit EXCEPT ![r] = Waiting]
LockedByEdit(r) ==
    CASE edit[r].step = "write" -> {edit[r].target}
      [] edit[r].step = "claim" -> edit[r].entries
      [] OTHER -> {}
NotLocked(o) ==
    /\ o \notin DOMAIN seeding.rows
    /\ \A r \in Editors : o \notin LockedByEdit(r)

-----------------------------------------------------------------------------
(* save_objective *)

CreateObjective(o, program) ==
    /\ o \notin Seeded /\ ~HasRow(o)
    /\ LET row == [program |-> program, seedText |-> FALSE, version |-> 1, managed |-> TRUE] IN
        /\ objectives' = Put(objectives, o, row)
        /\ change' = [entity |-> o, before |-> NoEntity, after |-> row]
    /\ UNCHANGED <<mappings, edit, seeding>>

\* The editor's page shows a version that was current at some time.  The row is locked;
\* courses of another program must not be mapped to it.
LockObjective(r, o, program, version) ==
    /\ EditStep(r, "idle")
    /\ HasRow(o) /\ NotLocked(o) /\ version <= objectives[o].version
    /\ \A c \in Courses : o \in mappings[c].entries => CourseProgram[c] = program
    /\ edit' = [edit EXCEPT ![r] =
            [step |-> "write", target |-> o, program |-> program, version |-> version]]
    /\ UNCHANGED <<objectives, mappings, change, seeding>>

\* The update claims the version, and the change goes into the history with it.
WriteObjective(r) ==
    LET o == edit[r].target
        row == [program |-> edit[r].program, seedText |-> FALSE,
                version |-> objectives[o].version + 1, managed |-> TRUE] IN
    /\ EditStep(r, "write")
    /\ IF objectives[o].version = edit[r].version
       THEN /\ row.version <= MaxVersion
            /\ objectives' = [objectives EXCEPT ![o] = row]
            /\ change' = [entity |-> o, before |-> objectives[o], after |-> row]
       ELSE UNCHANGED <<objectives, change>>
    /\ EndEdit(r)
    /\ UNCHANGED <<mappings, seeding>>

-----------------------------------------------------------------------------
(* save_mappings *)

\* The rows are locked in the order of their ids, all before one of them is looked at.
AllLocked(entries) == \A o \in entries : NotLocked(o)

\* Then the set is read for the history.
LockMappings(r, c, entries, version) ==
    /\ EditStep(r, "idle")
    /\ AllLocked(entries) /\ version <= mappings[c].version
    /\ \A o \in entries : HasRow(o) /\ objectives[o].program = CourseProgram[c]
    /\ edit' = [edit EXCEPT ![r] = [step |-> "claim", course |-> c, entries |-> entries,
                                   version |-> version, before |-> mappings[c]]]
    /\ UNCHANGED <<objectives, mappings, change, seeding>>

\* Mutant: whoever saves last wins.
ClaimsAny(c, version) == TRUE

\* UPDATE ... WHERE mapping_version = the version of the page.
Claims(c, version) == mappings[c].version = version

ClaimMappings(r) ==
    LET c == edit[r].course
        set == [entries |-> edit[r].entries, version |-> mappings[c].version + 1,
                managed |-> TRUE] IN
    /\ EditStep(r, "claim")
    /\ c \notin DOMAIN seeding.courses
    /\ IF Claims(c, edit[r].version)
       THEN /\ set.version <= MaxSetVersion
            /\ mappings' = [mappings EXCEPT ![c] = set]
            /\ change' = [entity |-> c, before |-> edit[r].before, after |-> set]
       ELSE UNCHANGED <<mappings, change>>
    /\ EndEdit(r)
    /\ UNCHANGED <<objectives, seeding>>

\* An error, or the database that breaks a deadlock with the seed script, rolls it back.
EditFails(r) ==
    /\ ~EditStep(r, "idle")
    /\ EndEdit(r)
    /\ UNCHANGED <<objectives, mappings, change, seeding>>

-----------------------------------------------------------------------------
(* seed_curriculum_map: one transaction over all of the payload *)

Converged(row) ==
    IF ~row.managed /\ (row.program # InfoTech \/ ~row.seedText)
    THEN [row EXCEPT !.program = InfoTech, !.seedText = TRUE, !.version = @ + 1]
    ELSE row

SeedObjective(o) ==
    /\ o \in Seeded \ DOMAIN seeding.rows /\ NotLocked(o)
    /\ LET row == IF HasRow(o) THEN Converged(objectives[o])
                  ELSE [program |-> InfoTech, seedText |-> TRUE, version |-> 1,
                        managed |-> FALSE] IN
        seeding' = [seeding EXCEPT !.rows = Put(@, o, row)]
    /\ UNCHANGED <<objectives, mappings, change, edit>>

\* Mappings of the payload are added and those of its objectives that it lacks are removed,
\* where the objective still belongs to the program.
Mapped(c) ==
    LET here == {o \in Seeded : seeding.rows[o].program = InfoTech}
        canonical == {o \in here : <<c, o>> \in Canonical} IN
    (mappings[c].entries \ (here \ canonical)) \cup canonical

\* A set that an administrator manages stays as it is.
UnmanagedSet(c) == IF mappings[c].managed THEN mappings[c].entries ELSE Mapped(c)

SeedCourse(c) ==
    /\ c \in SeededCourses \ DOMAIN seeding.courses /\ DOMAIN seeding.rows = Seeded
    /\ LET entries == UnmanagedSet(c) IN
        /\ entries # mappings[c].entries => mappings[c].version < MaxSetVersion
        /\ seeding' = [seeding EXCEPT !.courses =
            Put(@, c, [entries |-> entries, managed |-> mappings[c].managed,
                       version |-> IF entries = mappings[c].entries THEN mappings[c].version
                                   ELSE mappings[c].version + 1])]
    /\ UNCHANGED <<objectives, mappings, change, edit>>

SeedCommit ==
    /\ DOMAIN seeding.rows = Seeded /\ DOMAIN seeding.courses = SeededCourses
    /\ objectives' = [o \in Seeded \cup DOMAIN objectives |->
                         IF o \in Seeded THEN seeding.rows[o] ELSE objectives[o]]
    /\ mappings' = [c \in Courses |->
                       IF c \in SeededCourses THEN seeding.courses[c] ELSE mappings[c]]
    /\ seeding' = NotSeeding
    /\ UNCHANGED <<change, edit>>

SeedFails ==
    /\ seeding # NotSeeding
    /\ seeding' = NotSeeding
    /\ UNCHANGED <<objectives, mappings, change, edit>>

-----------------------------------------------------------------------------

CatalogNext ==
    \/ \E o \in Objectives, program \in Programs : CreateObjective(o, program)
    \/ \E r \in Editors :
        \/ \E o \in Objectives, program \in Programs, version \in 1..MaxVersion :
            LockObjective(r, o, program, version)
        \/ WriteObjective(r)
        \/ \E c \in Courses, entries \in SUBSET Objectives, version \in 1..MaxSetVersion :
            LockMappings(r, c, entries, version)
        \/ ClaimMappings(r) \/ EditFails(r)
    \/ \E o \in Objectives : SeedObjective(o)
    \/ \E c \in Courses : SeedCourse(c)
    \/ SeedCommit \/ SeedFails

CatalogSpec == CatalogInit /\ [][CatalogNext]_catalogVars

-----------------------------------------------------------------------------
(* Properties *)

CatalogTypeOK ==
    /\ DOMAIN objectives \subseteq Objectives
    /\ \A o \in DOMAIN objectives : objectives[o] \in Objective
    /\ mappings \in [Courses -> MappingSet]
    /\ \A r \in Editors : edit[r].step \in {"idle", "write", "claim"}
    /\ DOMAIN seeding.rows \subseteq Seeded /\ DOMAIN seeding.courses \subseteq SeededCourses

\* A course is mapped only to objectives of its own program, although the program of an
\* objective and the mappings of a course are checked and changed by different operations
\* (save_objective, save_mappings and seed_curriculum_map).
MappingsFitPrograms ==
    \A c \in Courses : \A o \in mappings[c].entries :
        HasRow(o) /\ objectives[o].program = CourseProgram[c]

\* What an administrator has edited changes only together with a row of history that holds the
\* values from just before and just after: no edit is lost between two pages, and the seed
\* script leaves it alone (audit in save_objective and save_mappings; "Admin-managed
\* objectives and course mapping sets are preserved").
EditsAreAudited ==
    [][/\ \A o \in DOMAIN objectives :
            objectives[o].managed /\ objectives'[o] # objectives[o] =>
                change' = [entity |-> o, before |-> objectives[o], after |-> objectives'[o]]
       /\ \A c \in Courses :
            mappings'[c] # mappings[c] /\ mappings'[c].managed =>
                change' = [entity |-> c, before |-> mappings[c], after |-> mappings'[c]]
      ]_catalogVars
=============================================================================
