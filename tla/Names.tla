------------------------------- MODULE Names -------------------------------
(***************************************************************************)
(* names::rfc1123_subdomain, which turns the `name` of POST /deploy into   *)
(* the prefix of the pod's name (k8s::pod::new).  A string is a sequence   *)
(* of character classes, each with its UTF-8 width, because the code      *)
(* classifies characters with Unicode predicates but measures and         *)
(* truncates in bytes:                                                     *)
(*   "lower"  an ASCII lowercase letter            1 byte, alphanumeric    *)
(*   "digit"  an ASCII digit                       1 byte, alphanumeric    *)
(*   "punct"  ASCII punctuation or a space         1 byte                  *)
(*   "eth"    a lowercase non-ASCII letter (U+00F0)     2 bytes, alphanumeric   *)
(*   "emoji"  a non-alphanumeric symbol            4 bytes                 *)
(* and the generated characters "space", "hyphen" and "hex" (one byte).   *)
(* ASCII uppercase letters are left out: to_case lowercases them and only *)
(* adds word breaks, which the letter/digit breaks already exercise.       *)
(***************************************************************************)
EXTENDS Naturals, Sequences, FiniteSets, SequencesExt

CONSTANTS
    RunLengths,   \* lengths of the run of ASCII letters an input starts with
    TailLength    \* the longest tail of arbitrary characters after the run

InputChars == {"lower", "digit", "punct", "eth", "emoji"}

Word(n, c) == [i \in 1..n |-> c]

(* String::len, in bytes.                                                  *)
ByteLen(s) == Len(s) + Cardinality({i \in DOMAIN s : s[i] = "eth"})
                     + 3 * Cardinality({i \in DOMAIN s : s[i] = "emoji"})

(* uuid(): Uuid::to_simple, 32 lowercase hexadecimal digits.               *)
Uuid == Word(32, "hex")

(* String::truncate(n): a no-op when the string is no longer; a panic when *)
(* byte n falls inside a character; otherwise the first n bytes.           *)
IsCharBoundary(s, n) == \E k \in 0..Len(s) : ByteLen(SubSeq(s, 1, k)) = n
Truncate(s, n) ==
    IF ByteLen(s) <= n THEN s
    ELSE SubSeq(s, 1, CHOOSE k \in 0..Len(s) : ByteLen(SubSeq(s, 1, k)) = n)

(* Steps 1 and 2 of the doc comment: every non-alphanumeric character      *)
(* becomes a space, then to_case(Case::Kebab) splits words at spaces and   *)
(* between a letter and a digit and joins them with hyphens; an empty      *)
(* result is DEFAULT_IF_INVALID_SUBDOMAIN, "invalid-rfc1123-connector-name". *)
Normalized(input) ==
    LET b[i \in DOMAIN input] == IF input[i] \in {"lower", "digit", "eth"} THEN input[i] ELSE "space"
        wordStart(i) == b[i-1] = "space" \/ (b[i-1] = "digit") # (b[i] = "digit")
        RECURSIVE kebab(_, _)
        kebab(i, started) ==
            IF i > Len(input) THEN <<>>
            ELSE IF b[i] = "space" THEN kebab(i + 1, started)
            ELSE (IF started /\ wordStart(i) THEN <<"hyphen", b[i]>> ELSE <<b[i]>>) \o kebab(i + 1, TRUE)
        default == Word(7, "lower") \o <<"hyphen">> \o Word(3, "lower") \o Word(4, "digit")
                   \o <<"hyphen">> \o Word(9, "lower") \o <<"hyphen">> \o Word(4, "lower")
    IN IF kebab(1, FALSE) # <<>> THEN kebab(1, FALSE) ELSE default

(* Step 3, on byte lengths: case 3a keeps the whole UUID; 3b cuts the      *)
(* prefix to 54 bytes and the UUID to 8; 3c cuts the UUID so that the name *)
(* is 63 bytes.  The result is the name, or a panic of the handler.        *)
Rfc1123Subdomain(input) ==
    LET prefix == Normalized(input)
        P == ByteLen(prefix)
    IN CASE 32 + P + 1 <= 63 -> [panic |-> FALSE, name |-> prefix \o <<"hyphen">> \o Uuid]
         [] P + 9 > 63 ->
              IF IsCharBoundary(prefix, 54)
                 THEN [panic |-> FALSE,
                       name |-> Truncate(prefix, 54) \o <<"hyphen">> \o Truncate(Uuid, 8)]
                 ELSE [panic |-> TRUE, name |-> <<>>]
         [] OTHER -> [panic |-> FALSE,
                      name |-> prefix \o <<"hyphen">> \o Truncate(Uuid, 63 - 1 - P)]

(* The name `name` of POST /deploy: any string; here a run of letters of  *)
(* one of the lengths that reach the three cases, then a short tail.       *)
Inputs == {Word(n, "lower") \o t : n \in RunLengths, t \in BoundedSeq(InputChars, TailLength)}

VARIABLE input

Init == input \in Inputs
Next == UNCHANGED input
Spec == Init /\ [][Next]_input

---------------------------------------------------------------------------
(* A DNS-1123 label: at most 63 bytes of [a-z0-9-], starting and ending   *)
(* with an alphanumeric character.                                         *)
IsDns1123Label(s) ==
    /\ Len(s) \in 1..63 /\ ByteLen(s) <= 63
    /\ \A i \in DOMAIN s : s[i] \in {"lower", "digit", "hex", "hyphen"}
    /\ s[1] # "hyphen" /\ s[Len(s)] # "hyphen"

(* What the doc comment of rfc1123_subdomain and its use in pod::new say:  *)
(* every name is turned into a valid pod name ("those names must be valid *)
(* subdomains"), of at most 63 bytes; the fuzz test asserts this, and    *)
(* that the name starts alphanumeric, for printable ASCII input only.     *)
SubdomainValid ==
    LET r == Rfc1123Subdomain(input)
    IN ~r.panic /\ IsDns1123Label(r.name)

=============================================================================
