--------------------------- MODULE AdapterVerdict ---------------------------
(* The comparison of an adapter with the plain model on held-out pairs        *)
(* (training/evaluate_adapter.py): what a pair says, how a pair is won, and    *)
(* the verdict of an exact sign test.  The pairs are counted one by one; the   *)
(* calls and their scales are in AdapterServing.                               *)
EXTENDS Integers, FiniteSets, FiniteSetsExt

CONSTANTS
    Scored,         \* criteria of the held-out pairs
    MinScore, MaxScore,
    MinDecisive,    \* fewest decisive pairs for a verdict
    Alpha,          \* significance level, in percent
    MaxHeldout      \* bound: pairs of the held-out file

ASSUME VerdictAssumption ==
    /\ IsFiniteSet(Scored) /\ MinScore \in Nat /\ MaxScore \in Nat /\ MinScore < MaxScore
    /\ MinDecisive \in Nat \ {0} /\ Alpha \in 1..99 /\ MaxHeldout \in Nat

VARIABLES tally, counting

verdictVars == <<tally, counting>>

\* validate_sme_reply: the scores of a reply, or none when it is not valid.  A reply with a
\* criterion that has items instead of a score is not.
Invalid == <<>>
Replies == {Invalid} \cup UNION {[cs -> MinScore..MaxScore] : cs \in SUBSET Scored \ {{}}}

\* answer_key: the criteria of both replies whose score the reviewer changed.
AnswerKey(chosen, rejected) ==
    {c \in DOMAIN chosen \cap DOMAIN rejected : chosen[c] # rejected[c]}

WorstError == MaxScore - MinScore
Distance(a, b) == IF a < b THEN b - a ELSE a - b

\* error_total: an invalid reply and a missing criterion are as wrong as can be.
ErrorTotal(key, gold, reply) ==
    SumFunction([c \in key |->
                     IF c \in DOMAIN reply THEN Distance(reply[c], gold[c]) ELSE WorstError])

\* score_pair, and which replies were valid and equal.
ScorePair(chosen, rejected, base, adapter) ==
    LET key == AnswerKey(chosen, rejected)
        b == ErrorTotal(key, chosen, base)
        a == ErrorTotal(key, chosen, adapter)
    IN [outcome |-> CASE key = {} -> "skipped" [] key # {} /\ a < b -> "win"
                      [] key # {} /\ a > b -> "loss" [] key # {} /\ a = b -> "tie",
        base |-> base # Invalid, adapter |-> adapter # Invalid, same |-> base = adapter]

Comparisons == {ScorePair(c, r, b, a) : c \in Replies, r \in Replies, b \in Replies, a \in Replies}

-----------------------------------------------------------------------------
Count(n, yes) == IF yes THEN n + 1 ELSE n

VerdictInit ==
    /\ tally = [pairs |-> 0, wins |-> 0, losses |-> 0, ties |-> 0, base |-> 0, adapter |-> 0,
                same |-> TRUE]
    /\ counting = TRUE

\* run_evaluation: one more pair of the file.  A skipped one is sent to neither arm.
Compare ==
    /\ counting /\ tally.pairs < MaxHeldout
    /\ \E o \in Comparisons :
           tally' = IF o.outcome = "skipped" THEN [tally EXCEPT !.pairs = @ + 1]
                    ELSE [pairs |-> tally.pairs + 1,
                          wins |-> Count(tally.wins, o.outcome = "win"),
                          losses |-> Count(tally.losses, o.outcome = "loss"),
                          ties |-> Count(tally.ties, o.outcome = "tie"),
                          base |-> Count(tally.base, o.base),
                          adapter |-> Count(tally.adapter, o.adapter),
                          same |-> tally.same /\ o.same]
    /\ UNCHANGED counting

Scoreable == tally.wins + tally.losses + tally.ties

\* Without a pair that can be scored the tool ends with an error.
Judge ==
    /\ counting /\ Scoreable > 0
    /\ counting' = FALSE
    /\ UNCHANGED tally

VerdictNext == Compare \/ Judge
VerdictSpec == VerdictInit /\ [][VerdictNext]_verdictVars

VerdictTypeOK ==
    /\ counting \in BOOLEAN /\ tally.same \in BOOLEAN
    /\ Scoreable <= tally.pairs /\ tally.pairs <= MaxHeldout
    /\ tally.base <= Scoreable /\ tally.adapter <= Scoreable

-----------------------------------------------------------------------------
(* The verdict *)

\* math.comb
comb[n \in 0..MaxHeldout] ==
    [k \in 0..MaxHeldout |->
        IF k = 0 THEN 1 ELSE IF n = 0 THEN 0 ELSE comb[n - 1][k - 1] + comb[n - 1][k]]

Least(a, b) == IF a < b THEN a ELSE b

\* Mutant: one tail.
OneSided(wins, losses) ==
    100 * SumFunctionOnSet(comb[wins + losses], 0..Least(wins, losses))
        >= Alpha * 2 ^ (wins + losses)

\* sign_test_p >= alpha, without the division: twice the smaller tail of 2^n.
ByChance(wins, losses) ==
    200 * SumFunctionOnSet(comb[wins + losses], 0..Least(wins, losses))
        >= Alpha * 2 ^ (wins + losses)

\* decide; the valid rates have the same divisor.
DecideVerdict(wins, losses, base, adapter) ==
    IF wins + losses < MinDecisive \/ ByChance(wins, losses) THEN "inconclusive"
    ELSE IF losses > wins THEN "worse"
    ELSE IF adapter < base THEN "inconclusive"
    ELSE "better"

Verdict == DecideVerdict(tally.wins, tally.losses, tally.base, tally.adapter)

\* The verdict is earned: an arm never wins a pair with an invalid reply; "better" and
\* "worse" need enough decisive pairs of which a fair coin would do the like less often than
\* Alpha; a better adapter is valid as often as the plain model; the two arms swapped never
\* both look better; and equal replies decide nothing (evaluate_adapter.py:55-194).
Flips == SUBSET (1..(tally.wins + tally.losses))
AsUneven == {f \in Flips :
                \/ Cardinality(f) <= Least(tally.wins, tally.losses)
                \/ Cardinality(f) >= tally.wins + tally.losses - Least(tally.wins, tally.losses)}
VerdictIsEarned ==
    /\ tally.wins <= tally.adapter /\ tally.losses <= tally.base
    /\ tally.same => tally.wins + tally.losses = 0
    /\ ~counting /\ Verdict # "inconclusive" =>
           /\ tally.wins + tally.losses >= MinDecisive
           /\ 100 * Cardinality(AsUneven) < Alpha * Cardinality(Flips)
    /\ ~counting /\ Verdict = "better" =>
           /\ tally.adapter >= tally.base
           /\ DecideVerdict(tally.losses, tally.wins, tally.adapter, tally.base) = "worse"
=============================================================================
