------------------------------- MODULE Cron --------------------------------
(***************************************************************************)
(* The cron parser of core/cron_parser.py, as operators.  A field of an    *)
(* expression is the set of its comma-separated parts; a part is [base,    *)
(* low, high, step], where base tells the four forms apart ("star",        *)
(* "value", "range", and "bad" for a token that is no number) and step is  *)
(* NoStep without a "/".  An expression has two fields, standing for the   *)
(* five: one plain (minute, day of month...) and the day of the week, which*)
(* alone accepts the alias (7 for Sunday).  Raising is the empty set: no   *)
(* part that parses is empty.                                              *)
(***************************************************************************)
EXTENDS Integers, FiniteSets, FiniteSetsExt

CONSTANTS
    PlainMin,  \* least value of the plain field (1 for a day of the month)
    PlainMax,  \* largest value of the plain field (31)
    DowMax     \* largest day of the week (6); the alias is DowMax + 1

ASSUME CronAssumption ==
    PlainMin \in Nat /\ PlainMax \in Nat /\ DowMax \in Nat /\ PlainMin <= PlainMax

CronFields == {"plain", "dow"}
NoStep == -1
Raised == {}
Unparsed == {-1}
MinValue(f) == IF f = "plain" THEN PlainMin ELSE 0
MaxValue(f) == IF f = "plain" THEN PlainMax ELSE DowMax

\* _DOW_ALIAS_VALUE if allow_alias else spec.max_value
Upper(f) == IF f = "dow" THEN DowMax + 1 ELSE PlainMax

_parse_value(v, f) == v \in MinValue(f) .. Upper(f)

\* Mutant of _normalize: the alias is not folded onto Sunday.
NotNormalized(v, f) == v

_normalize(v, f) == IF f = "dow" /\ v = DowMax + 1 THEN 0 ELSE v

\* The bounds a part stands for; "a/step" runs to the upper bound.
High(p, f) ==
    CASE p.base = "star"  -> MaxValue(f)
      [] p.base = "range" -> p.high
      [] OTHER            -> IF p.step = NoStep THEN p.low ELSE Upper(f)
Low(p, f) == IF p.base = "star" THEN MinValue(f) ELSE p.low

PartRaises(p, f) ==
    \/ p.base = "bad"
    \/ p.step /= NoStep /\ p.step <= 0
    \/ p.base /= "star" /\ ~_parse_value(p.low, f)
    \/ p.base = "range" /\ (~_parse_value(p.high, f) \/ p.low > p.high)

\* range(low, high + 1, step), counted out.
_parse_part(p, f) ==
    IF PartRaises(p, f) THEN Raised
    ELSE LET step  == IF p.step = NoStep THEN 1 ELSE p.step
             turns == (High(p, f) - Low(p, f)) \div step
         IN {_normalize(Low(p, f) + i * step, f) : i \in 0 .. turns}

_parse_field(parts, f) ==
    IF \E p \in parts : _parse_part(p, f) = Raised THEN Raised
    ELSE UNION {_parse_part(p, f) : p \in parts}

parse(expression) == [f \in CronFields |-> _parse_field(expression[f], f)]

ParseRaises(expression) == \E f \in CronFields : parse(expression)[f] = Raised

\* A part of a field as it is written, malformed ones included.
CronParts == [base : {"star", "value", "range", "bad"}, low : Nat, high : Nat, step : Int]

Part(base, low, high, step) == [base |-> base, low |-> low, high |-> high, step |-> step]

\* "*" for the full range, otherwise the list of the values.
_format_field(values, f) ==
    IF values = MinValue(f) .. MaxValue(f) THEN {Part("star", 0, 0, NoStep)}
    ELSE {Part("value", v, v, NoStep) : v \in values}

(***************************************************************************)
(* What an expression means, independently of how it is expanded: v is     *)
(* named by a part when v, or the alias of v, lies between its bounds at a *)
(* multiple of the step from the first.                                    *)
(***************************************************************************)
Names(p, f, v) ==
    \E w \in {v} \cup {u \in {DowMax + 1} : f = "dow" /\ v = 0} :
        /\ CASE p.base = "star"  -> w \in MinValue(f) .. MaxValue(f)
             [] p.base = "range" -> p.low <= w /\ w <= p.high
             [] OTHER            -> IF p.step = NoStep THEN w = p.low ELSE p.low <= w
        /\ p.step > 0 => \E k \in 0 .. w : w = Low(p, f) + k * p.step

FieldNames(parts, f, v) == \E p \in parts : Names(p, f, v)

WellFormed(parts, f) ==
    /\ parts /= {}
    /\ \A p \in parts :
        /\ p.base \in {"star", "value", "range"}
        /\ p.step = NoStep \/ p.step > 0
        /\ p.base = "value" => p.low \in MinValue(f) .. Upper(f)
        /\ p.base = "range" => MinValue(f) <= p.low /\ p.low <= p.high /\ p.high <= Upper(f)

(***************************************************************************)
(* One request to parse a field, for the run that checks the parser.       *)
(***************************************************************************)
CONSTANT StepChoices  \* steps written after a "/"

ASSUME StepsAssumption == StepChoices \subseteq Int \ {NoStep}

VARIABLES
    cronField,   \* the field being parsed: [f, parts]
    cronValues   \* what _parse_field returned, or Unparsed

cronVars == <<cronField, cronValues>>

AllParts ==
    LET written == 0 .. Max({PlainMax, DowMax + 1}) + 1
        steps   == StepChoices \cup {NoStep}
    IN {Part("bad", 0, 0, NoStep)}
       \cup {Part("star", 0, 0, s) : s \in steps}
       \cup {Part("value", v, v, s) : v \in written, s \in steps}
       \cup {Part("range", v, w, s) : v \in written, w \in written, s \in steps}

\* A field of one part or two.
CronInit ==
    /\ \E f \in CronFields, p \in AllParts, q \in AllParts : cronField = [f |-> f, parts |-> {p, q}]
    /\ cronValues = Unparsed

CronNext ==
    /\ cronValues = Unparsed
    /\ cronValues' = _parse_field(cronField.parts, cronField.f)
    /\ UNCHANGED cronField

\* The parser raises exactly on the malformed fields; otherwise it returns the
\* values the field names (so an expression is due when it says, Sunday
\* written 0 or 7), and formatting them gives a field that parses to the same
\* values (cron_parser.py parse, format).
CronFaithful ==
    cronValues /= Unparsed =>
        LET f == cronField.f  parts == cronField.parts IN
        /\ (cronValues = Raised) <=> ~WellFormed(parts, f)
        /\ cronValues /= Raised =>
            /\ cronValues = {v \in MinValue(f) .. MaxValue(f) : FieldNames(parts, f, v)}
            /\ _parse_field(_format_field(cronValues, f), f) = cronValues
=============================================================================
