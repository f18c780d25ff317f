------------------------------ MODULE Conditions ------------------------------
(***************************************************************************)
(* config/endpoint/condition.go and placeholder.go: what a condition       *)
(* resolves its two sides to and how it compares them.                     *)
(*                                                                         *)
(* A condition is [left, op, right].  The left side is a placeholder       *)
(*   [of, function, capitals]                                              *)
(* : what it stands for, "", "len" or "has" around it, and whether it is   *)
(* written in capitals.  The right side is [kind, values]: a literal, or   *)
(* pat(..) or any(..) with the values it matches.  Values are strings;     *)
(* [STATUS], [CONNECTED], [IP] and [DOMAIN_EXPIRATION] stand for the basic *)
(* placeholders, [BODY] for the text, [BODY].status for a path into it and *)
(* [CONTEXT].id for a value of a suite.                                    *)
(***************************************************************************)
EXTENDS Integers, Sequences

CONSTANT NoContext  \* the endpoint is not part of a suite

Placeholders == {"[STATUS]", "[IP]", "[CONNECTED]", "[DOMAIN_EXPIRATION]", "[BODY]", "[BODY].status",
                 "[CONTEXT].id"}
Operators == {"==", "!=", "<=", ">=", ">", "<"}

Invalid == "(INVALID)"

\* strconv.ParseInt and ParseFloat: what is not a number counts as 0.
Number(v) ==
    CASE v = "200" \/ v = "0xC8" -> 200
      [] v = "500" -> 500
      [] v = "300" -> 300
      [] v = "11" -> 11
      [] v = "10" -> 10
      [] v = "9" -> 9
      [] v = "2" -> 2
      [] v = "1" -> 1
      [] OTHER -> 0

IsInteger(v) == v \in {"0xC8", "200", "500", "300", "11", "10", "9", "2", "1", "0"}

\* len() of the values there are.
LengthOf(v) ==
    CASE v = "" -> "0"
      [] v \in {"0", "1", "9"} -> "1"
      [] v \in {"11", "UP"} -> "2"
      [] v \in {"200", "500"} -> "3"
      [] v \in {"DOWN", "true"} -> "4"
      [] v = "false" -> "5"
      [] v = "status UP" -> "9"
      [] v = "plain text" -> "10"
      [] v = "status DOWN" -> "11"

Boolean(b) == IF b THEN "true" ELSE "false"

\* jsonpath.Eval for the path "status".
FindsStatus(body) == body \in {"status UP", "status DOWN"}
StatusIn(body) == IF body = "status UP" THEN "UP" ELSE "DOWN"

formatWithFunction(value, function) ==
    CASE function = "has" -> Boolean(value # "")
      [] function = "len" -> LengthOf(value)
      [] OTHER -> value

\* A path that leads nowhere is false to has(), and invalid otherwise.
ResolvePath(found, value, function) ==
    CASE function = "has" -> Boolean(found)
      [] ~found -> Invalid
      [] OTHER -> formatWithFunction(value, function)

\* The prefix is trimmed as it is written in capitals: in another case the
\* path that remains is found in no context.
resolveContextPlaceholder(p, context) ==
    ResolvePath(p.capitals /\ context # "", context, p.function)

\* Placeholders are recognised in any case.  Outside a suite [CONTEXT] is not
\* a placeholder, and stays what it is.
ResolvePlaceholder(p, result, context) ==
    CASE p.of = "[STATUS]" -> formatWithFunction(result.status, p.function)
      [] p.of = "[IP]" -> formatWithFunction(result.ip, p.function)
      [] p.of = "[CONNECTED]" -> formatWithFunction(Boolean(result.connected), p.function)
      [] p.of = "[DOMAIN_EXPIRATION]" -> formatWithFunction(result.domainExpiration, p.function)
      [] p.of = "[BODY]" -> formatWithFunction(result.body, p.function)
      [] p.of = "[BODY].status" ->
            ResolvePath(FindsStatus(result.body), StatusIn(result.body), p.function)
      [] p.of = "[CONTEXT].id" ->
            IF context # NoContext THEN resolveContextPlaceholder(p, context)
            ELSE IF p.function = "has" THEN "false"
            ELSE IF p.function = "len" THEN Invalid
            ELSE p.of

\* pat() and any() match a set of values; two integers are equal whatever
\* base they are written in.
isEqual(first, second) ==
    IF second.kind \in {"pat", "any"} THEN first \in second.values
    ELSE \E v \in second.values :
            \/ first = v
            \/ IsInteger(first) /\ IsInteger(v) /\ Number(first) = Number(v)

Literal(right) == CHOOSE v \in right.values : TRUE

Satisfies(left, op, right) ==
    CASE op = "==" -> isEqual(left, right)
      [] op = "!=" -> ~isEqual(left, right)
      [] op = "<=" -> Number(left) <= Number(Literal(right))
      [] op = ">=" -> Number(left) >= Number(Literal(right))
      [] op = ">" -> Number(left) > Number(Literal(right))
      [] op = "<" -> Number(left) < Number(Literal(right))

EvaluateCondition(c, result, context) ==
    Satisfies(ResolvePlaceholder(c.left, result, context), c.op, c.right)

\* What a condition needs is searched for in capitals only.
hasBodyPlaceholder(c) == c.left.capitals /\ c.left.of \in {"[BODY]", "[BODY].status"}
hasDomainExpirationPlaceholder(c) == c.left.capitals /\ c.left.of = "[DOMAIN_EXPIRATION]"
hasIPPlaceholder(c) == c.left.capitals /\ c.left.of = "[IP]"
=============================================================================
