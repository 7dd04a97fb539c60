---------------------------- MODULE ConditionLogic ----------------------------
(***************************************************************************)
(* The condition logic of a notifier, such as {1} and ({2} or {3}):        *)
(* parse_condition_logic_string reads it token by token into nested lists, *)
(* eval_logic_groups_to_bool evaluates those, and notify_custom_conditions *)
(* lets the notifier through or not.                                       *)
(*                                                                         *)
(* The state is the parser's after the tokens of text; what it would do if *)
(* the text ended there is Accepted.  A condition is the number of its     *)
(* token and the n-th condition of a text is {n}: a text that mentions     *)
(* more than there are is refused.  While a list is on the stack it is the *)
(* last element of the one below, so here it is put there when it is       *)
(* popped.                                                                 *)
(***************************************************************************)
EXTENDS Naturals, SequencesExt

CONSTANTS
  NumConditions, \* conditions of the notifier
  MaxTokens      \* bound: tokens of a text

VARIABLES
  text,          \* the tokens read
  stack,         \* the lists that are open
  nest_and, nest_nest_and,
  cond_next,     \* a condition or an opening bracket comes next, else and, or, )
  raised         \* the parser raised a ValueError

counters == <<nest_and, nest_nest_and>>
vars == <<text, stack, counters, cond_next, raised>>
-----------------------------------------------------------------------------
Condition(n) == [is |-> "condition", n |-> n]
Op(x) == [is |-> x]
Group(items) == [is |-> "group", of |-> items]

Open == Op("(")
Close == Op(")")
And == Op("and")
Or == Op("or")

Mentioned(tokens) == Len(SelectSeq(tokens, LAMBDA x : x.is = "condition"))

Tokens == {Open, Close, And, Or, Condition(Mentioned(text) + 1)}

\* A stack without its top, which becomes the last element of the list below.
Popped(lists) ==
  IF Len(lists) = 1 THEN << >>
  ELSE Append(Front(Front(lists)), Append(Last(Front(lists)), Group(Last(lists))))

AddedToTop(item) == Append(Front(stack), Append(Last(stack), item))

Init ==
  /\ text = << >> /\ stack = << << >> >>
  /\ nest_and = 0 /\ nest_nest_and = 0
  /\ cond_next = TRUE /\ raised = FALSE

\* Without a list on the stack the next token raises an IndexError.
Reading(x) ==
  /\ ~raised /\ stack # << >>
  /\ Len(text) < MaxTokens
  /\ x \in Tokens
  /\ text' = Append(text, x)

ReadOpen ==
  /\ Reading(Open) /\ cond_next
  /\ stack' = Append(stack, << >>)
  /\ nest_nest_and' = IF nest_and > 0 THEN nest_nest_and + 1 ELSE nest_nest_and
  /\ UNCHANGED <<nest_and, cond_next, raised>>

\* Mutated form of Closing: whether a bracket is open is not asked.
ClosingAny == Reading(Close) /\ ~cond_next

\* Only the list at the bottom of the stack was not opened by a bracket.
Closing == Reading(Close) /\ ~cond_next /\ Len(stack) > 1

\* The bracket ends the and whose operand it is, told by the two counters.
ReadClose ==
  /\ Closing
  /\ IF nest_and > 0 /\ nest_nest_and > 0 /\ nest_and = nest_nest_and
       THEN /\ stack' = Popped(Popped(stack))
            /\ nest_and' = nest_and - 1
            /\ nest_nest_and' = nest_nest_and - 1
       ELSE stack' = Popped(stack) /\ UNCHANGED counters
  /\ UNCHANGED <<cond_next, raised>>

\* The condition is the operand of an and opened since the last bracket.
EndsAnd == nest_and > nest_nest_and

ReadCondition ==
  /\ \E n \in 1 .. NumConditions :
       /\ Reading(Condition(n))
       /\ IF EndsAnd
            THEN stack' = Popped(AddedToTop(Condition(n))) /\ nest_and' = nest_and - 1
            ELSE stack' = AddedToTop(Condition(n)) /\ UNCHANGED nest_and
  /\ cond_next /\ cond_next' = FALSE
  /\ UNCHANGED <<nest_nest_and, raised>>

\* Mutated form of ReadAnd: as ReadOr does.
ReadAndLikeOr ==
  /\ Reading(And) /\ ~cond_next
  /\ stack' = AddedToTop(And)
  /\ cond_next' = TRUE
  /\ UNCHANGED <<counters, raised>>

\* The operand before and moves into a list of its own.
ReadAnd ==
  /\ Reading(And) /\ ~cond_next
  /\ stack' = Append(Front(stack), Front(Last(stack))) \o << <<Last(Last(stack)), And>> >>
  /\ nest_and' = nest_and + 1
  /\ cond_next' = TRUE
  /\ UNCHANGED <<nest_nest_and, raised>>

ReadOr ==
  /\ Reading(Or) /\ ~cond_next
  /\ stack' = AddedToTop(Or)
  /\ cond_next' = TRUE
  /\ UNCHANGED <<counters, raised>>

\* Any other token, a bracket that closes none and a condition that is not there.
Refuse ==
  /\ \E x \in Tokens :
       /\ Reading(x)
       /\ \/ x = Open /\ ~cond_next
          \/ x = Close /\ (cond_next \/ Len(stack) = 1)
          \/ x \in {And, Or} /\ cond_next
          \/ x.is = "condition" /\ (~cond_next \/ x.n > NumConditions)
  /\ raised' = TRUE
  /\ UNCHANGED <<stack, counters, cond_next>>

Next == ReadOpen \/ ReadClose \/ ReadCondition \/ ReadAnd \/ ReadOr \/ Refuse

Spec == Init /\ [][Next]_vars
-----------------------------------------------------------------------------
(* What notify_custom_conditions makes of the text. *)

Accepted == text # << >> /\ ~raised /\ Last(text) \notin {And, Or} /\ Len(stack) = 1

RECURSIVE Value(_, _), ValueUpTo(_, _, _)

Value(item, met) ==
  IF item.is = "condition" THEN met[item.n] ELSE ValueUpTo(item.of, Len(item.of), met)

\* From left to right, whatever the operators.
ValueUpTo(items, k, met) ==
  IF k = 1 THEN Value(items[1], met)
  ELSE IF items[k - 1] = And
       THEN ValueUpTo(items, k - 2, met) /\ Value(items[k], met)
       ELSE ValueUpTo(items, k - 2, met) \/ Value(items[k], met)

\* A blank condition counts as met; without logic all conditions have to be met.
Met(conditions) == [n \in DOMAIN conditions |-> conditions[n] # "unmet"]

notify_custom_conditions(conditions) ==
  IF text = << >> THEN \A n \in DOMAIN conditions : Met(conditions)[n]
  ELSE Accepted /\ Value(Group(stack[1]), Met(conditions))
-----------------------------------------------------------------------------
(* The documented meaning: and binds tighter than or, brackets group. *)

Before(tokens, k) == SubSeq(tokens, 1, k - 1)
After(tokens, k) == SubSeq(tokens, k + 1, Len(tokens))
Inside(tokens) == SubSeq(tokens, 2, Len(tokens) - 1)

RECURSIVE Grammatical(_)

Splits(tokens, op) ==
  {k \in DOMAIN tokens : /\ tokens[k] = op
                         /\ Grammatical(Before(tokens, k)) /\ Grammatical(After(tokens, k))}

Bracketed(tokens) ==
  /\ Len(tokens) > 2 /\ Head(tokens) = Open /\ Last(tokens) = Close
  /\ Grammatical(Inside(tokens))

Grammatical(tokens) ==
  \/ Len(tokens) = 1 /\ tokens[1].is = "condition" /\ tokens[1].n <= NumConditions
  \/ Splits(tokens, Or) \cup Splits(tokens, And) # {}
  \/ Bracketed(tokens)

RECURSIVE Meaning(_, _)

Meaning(tokens, met) ==
  IF Len(tokens) = 1 THEN met[tokens[1].n]
  ELSE IF Splits(tokens, Or) # {} THEN
    LET k == CHOOSE k \in Splits(tokens, Or) : TRUE
    IN  Meaning(Before(tokens, k), met) \/ Meaning(After(tokens, k), met)
  ELSE IF Splits(tokens, And) # {} THEN
    LET k == CHOOSE k \in Splits(tokens, And) : TRUE
    IN  Meaning(Before(tokens, k), met) /\ Meaning(After(tokens, k), met)
  ELSE Meaning(Inside(tokens), met)

\* The bracket opened at k is still open at the j-th token.
OpenAt(k, j) ==
  /\ text[k] = Open /\ k < j
  /\ \A m \in k + 1 .. j :
       LET of == SubSeq(text, k, m - 1)
       IN  Len(SelectSeq(of, LAMBDA x : x = Open)) > Len(SelectSeq(of, LAMBDA x : x = Close))

\* Within brackets that follow and, brackets follow and.
SimplyNested ==
  \A k, j \in DOMAIN text :
    OpenAt(k, j) /\ text[j] = Open /\ k > 1 /\ text[k - 1] = And => text[j - 1] = And

\* The parser of a simply nested text, right or wrong, never runs out of lists:
\* a ValueError, which notify_custom_conditions expects, is all it raises.
OnlyValueError == SimplyNested => stack # << >>

Answers == [1 .. NumConditions -> {"met", "unmet", "blank"}]

\* However many conditions, brackets and operators a text has, the notifier is
\* told exactly when the documented meaning of its logic is true, and never
\* when the text has none; this is what notifier_config.html promises, as long
\* as brackets nest simply.  Of the others some documented texts are refused,
\* {1} and (({2})) for one.
DocumentedMeaning ==
  SimplyNested /\ text # << >> =>
    /\ Accepted <=> Grammatical(text)
    /\ Accepted => \A conditions \in Answers :
         notify_custom_conditions(conditions) <=> Meaning(text, Met(conditions))
=============================================================================
