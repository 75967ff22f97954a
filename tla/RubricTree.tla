---------------------------- MODULE RubricTree ----------------------------
(* The editor of a rubric draft (server/modules/rubrics/authoring.py): the  *)
(* domains of one draft and the criteria under them, each with its place in *)
(* the order the form is shown in.  An operation looks its domain or        *)
(* criterion up without a lock, locks the draft, and looks again: between   *)
(* the two another editor may have moved or deleted it, or published the    *)
(* draft.  Titles, descriptions and strategy configurations are left out.   *)

EXTENDS Naturals, FiniteSets

CONSTANTS
    Editors,        \* editing requests at one time
    Domains,        \* the domains that can exist
    Criteria,       \* the criteria that can exist
    Codes,          \* criterion codes, case folded
    MaxPlace        \* bound: largest display order

ASSUME TreeAssumption ==
    /\ IsFiniteSet(Domains) /\ IsFiniteSet(Criteria)
    /\ MaxPlace \in Nat

VARIABLES
    editable,    \* the draft is still a draft
    domain,      \* each domain's display order, 0 for none there
    criterion,   \* each criterion's domain (a set of at most one), display
                 \* order and code
    edit         \* each editor's request, between its look-up and its lock

treeVars == <<editable, domain, criterion, edit>>

Shown == {d \in Domains : domain[d] # 0}
Under(d) == {c \in Criteria : criterion[c].domain = {d}}
Placed == UNION {Under(d) : d \in Domains}
Absent == [domain |-> {}, place |-> 0, code |-> "none"]
NoEdit == [op |-> "none"]

\* Identifiers are never used again: not while a request still holds one.
Named(e) == {edit[e][f] : f \in DOMAIN edit[e] \cap {"domain", "criterion"}}
            \cup IF edit[e].op = "reorder"
                 THEN DOMAIN edit[e].domains \cup DOMAIN edit[e].criteria ELSE {}
Unused(x) == \A e \in Editors : x \notin Named(e)

TreeInit ==
    /\ editable = TRUE
    /\ domain = [d \in Domains |-> 0]
    /\ criterion = [c \in Criteria |-> Absent]
    /\ edit = [e \in Editors |-> NoEdit]

-----------------------------------------------------------------------------
(* Places. *)

DomainPlaces == {domain[d] : d \in Shown}
PlacesUnder(d) == {criterion[c].place : c \in Under(d)}

\* One more than the largest place in use.
IsNextPlace(n, places) == (\A p \in places : p < n) /\ (n = 1 \/ n - 1 \in places)

\* A criterion of a domain that is numbered from 1 in the order of the form, S being what is
\* left of the domain's criteria.
Numbered(c, S) ==
    [criterion[c] EXCEPT !.place =
        Cardinality({o \in S : criterion[o].place <= criterion[c].place})]

-----------------------------------------------------------------------------
(* What an editor asks for, as it is looked up before the lock. *)

Asks(e, what) ==
    /\ edit[e] = NoEdit
    /\ edit' = [edit EXCEPT ![e] = what]
    /\ UNCHANGED <<editable, domain, criterion>>

AskDeleteDomain(e) ==
    \E d \in Shown : Asks(e, [op |-> "delete domain", domain |-> d])

AskCreate(e) ==
    \E d \in Shown, k \in Codes :
        Asks(e, [op |-> "create", domain |-> d, code |-> k])

AskMove(e) ==
    \E c \in Placed, d \in Shown :
        Asks(e, [op |-> "move", criterion |-> c, domain |-> d])

AskRecode(e) ==
    \E c \in Placed, k \in Codes :
        Asks(e, [op |-> "recode", criterion |-> c, code |-> k])

AskDelete(e) ==
    \E c \in Placed : Asks(e, [op |-> "delete", criterion |-> c])

\* The client sends the whole tree as it shows it, in another order: lists without repetition,
\* so each domain and each criterion of a domain gets a place of its own.
Orders(S) ==
    {place \in [S -> 1..Cardinality(S)] : \A a, b \in S : place[a] = place[b] => a = b}

AskReorder(e) ==
    \E places \in Orders(Shown), order \in Orders(Placed) :
        Asks(e, [op |-> "reorder", domains |-> places,
                 criteria |-> [c \in Placed |->
                     [domain |-> criterion[c].domain,
                      place |-> Cardinality({o \in Placed : /\ criterion[o].domain = criterion[c].domain
                                                            /\ order[o] <= order[c]})]]])

-----------------------------------------------------------------------------
(* What is done under the draft's lock, after the second look. *)

Ready(e, op) == editable /\ edit[e].op = op
Ends(e) == edit' = [edit EXCEPT ![e] = NoEdit] /\ UNCHANGED editable

CreateDomain(d) ==
    /\ editable /\ domain[d] = 0 /\ Unused(d)
    /\ \E n \in 1..MaxPlace :
        IsNextPlace(n, DomainPlaces) /\ domain' = [domain EXCEPT ![d] = n]
    /\ UNCHANGED <<editable, criterion, edit>>

DeleteDomain(e) ==
    /\ Ready(e, "delete domain")
    /\ domain' = [domain EXCEPT ![edit[e].domain] = 0]
    /\ criterion' = [c \in Criteria |->
          IF c \in Under(edit[e].domain) THEN Absent ELSE criterion[c]]
    /\ Ends(e)

CodeFree(k, c) == \A o \in Placed \ {c} : criterion[o].code # k

CreateCriterion(e, c) ==
    /\ Ready(e, "create")
    /\ c \notin Placed /\ Unused(c)
    /\ edit[e].domain \in Shown
    /\ CodeFree(edit[e].code, c)
    /\ \E n \in 1..MaxPlace :
        /\ IsNextPlace(n, PlacesUnder(edit[e].domain))
        /\ criterion' = [criterion EXCEPT ![c] =
              [domain |-> {edit[e].domain}, code |-> edit[e].code, place |-> n]]
    /\ Ends(e) /\ UNCHANGED domain

\* Both ends of the move are still there.
MoveStands(c, d) == c \in Placed /\ d \in Shown

\* The criterion goes to the end of its new domain, and both domains are
\* numbered anew; within its own domain only the numbering is done.
MoveCriterion(e) ==
    LET c == edit[e].criterion
        d == edit[e].domain
        left == {o \in Placed \ {c} : criterion[o].domain = criterion[c].domain}
        into == Under(d) \ {c}
    IN  /\ Ready(e, "move")
        /\ MoveStands(c, d)
        /\ IF c \in Under(d)
           THEN criterion' = [o \in Criteria |->
                    IF o \in Under(d) THEN Numbered(o, Under(d)) ELSE criterion[o]]
           ELSE criterion' = [o \in Criteria |->
                    IF o = c
                    THEN [domain |-> {d}, place |-> Cardinality(into) + 1,
                          code |-> criterion[c].code]
                    ELSE IF o \in left THEN Numbered(o, left)
                    ELSE IF o \in into THEN Numbered(o, into)
                    ELSE criterion[o]]
        /\ Ends(e) /\ UNCHANGED domain

UpdateCriterion(e) ==
    LET c == edit[e].criterion
    IN  /\ Ready(e, "recode")
        /\ c \in Placed
        /\ CodeFree(edit[e].code, c)
        /\ criterion' = [criterion EXCEPT ![c].code = edit[e].code]
        /\ Ends(e) /\ UNCHANGED domain

DeleteCriterion(e) ==
    /\ Ready(e, "delete")
    /\ criterion' = [criterion EXCEPT ![edit[e].criterion] = Absent]
    /\ Ends(e) /\ UNCHANGED domain

\* The tree sent is the tree there is: every domain once, and under each
\* exactly its criteria.
SameTree(e) ==
    /\ DOMAIN edit[e].domains = Shown /\ DOMAIN edit[e].criteria = Placed
    /\ \A c \in Placed : edit[e].criteria[c].domain = criterion[c].domain

Reorder(e) ==
    /\ Ready(e, "reorder")
    /\ SameTree(e)
    /\ domain' = [d \in Domains |-> IF d \in Shown THEN edit[e].domains[d] ELSE 0]
    /\ criterion' = [c \in Criteria |->
          IF c \in Placed
          THEN [criterion[c] EXCEPT !.place = edit[e].criteria[c].place]
          ELSE criterion[c]]
    /\ Ends(e)

\* The second look finds something else, or no draft any more.
StaleEdit(e) ==
    CASE edit[e].op = "create"  -> \/ edit[e].domain \notin Shown
                                   \/ \E o \in Placed : criterion[o].code = edit[e].code
      [] edit[e].op = "move"    -> ~ MoveStands(edit[e].criterion, edit[e].domain)
      [] edit[e].op = "recode"  -> \/ edit[e].criterion \notin Placed
                                   \/ ~ CodeFree(edit[e].code, edit[e].criterion)
      [] edit[e].op = "reorder" -> ~ SameTree(e)
      [] OTHER                  -> FALSE

RefuseEdit(e) ==
    /\ edit[e] # NoEdit
    /\ ~ editable \/ StaleEdit(e)
    /\ Ends(e) /\ UNCHANGED <<domain, criterion>>

\* The draft is published meanwhile.
PublishTree ==
    /\ editable
    /\ editable' = FALSE
    /\ UNCHANGED <<domain, criterion, edit>>

TreeNext ==
    \/ \E e \in Editors :
          \/ AskDeleteDomain(e) \/ AskCreate(e) \/ AskMove(e) \/ AskRecode(e)
          \/ AskDelete(e) \/ AskReorder(e)
          \/ DeleteDomain(e) \/ MoveCriterion(e) \/ UpdateCriterion(e)
          \/ DeleteCriterion(e) \/ Reorder(e) \/ RefuseEdit(e)
          \/ \E c \in Criteria : CreateCriterion(e, c)
    \/ \E d \in Domains : CreateDomain(d)
    \/ PublishTree

TreeSpec == TreeInit /\ [][TreeNext]_treeVars

-----------------------------------------------------------------------------
\* However edits that were asked for on an older tree interleave: every
\* criterion is under a domain that is there, no two domains and no two
\* criteria of a domain share a place, and no two criteria share a code.
TreeWellFormed ==
    /\ \A c \in Placed : criterion[c].domain \subseteq Shown
    /\ \A d1, d2 \in Shown : domain[d1] = domain[d2] => d1 = d2
    /\ \A c1, c2 \in Placed :
          \/ c1 = c2
          \/ /\ criterion[c1].code # criterion[c2].code
             /\ \/ criterion[c1].domain # criterion[c2].domain
                \/ criterion[c1].place # criterion[c2].place

=============================================================================
