------------------------------- MODULE Names --------------------------------
(* The names the system makes of text: the slug of a profile, which becomes    *)
(* the name of its directory and the key of its row, and host names, once as   *)
(* an operator lists them and once as a browser sends them. Text is a sequence *)
(* of characters that stand for their class.                                   *)
EXTENDS Integers, Sequences, FiniteSets, SequencesExt

CONSTANTS
  Letters,     \* characters of display names
  HostLetters, \* characters of host names
  MaxText,     \* bound: longest text tried
  MaxSlugLen,  \* MAX_SLUG_LEN, 60 in the code
  InputCap     \* DERIVE_INPUT_BYTE_CAP, 1024 in the code

VARIABLES
  input,            \* the text
  use,              \* what it is to become: a slug or a host pattern
  read,             \* bytes of it that have been read
  buf,              \* the slug so far
  last_was_hyphen,
  outcome           \* "scan", "ok" or the error
vars == <<input, use, read, buf, last_was_hyphen, outcome>>

(* Classes: a lower, A upper, 1 digit, e a byte of a character beyond ASCII.   *)
Lower(c) == IF c = "A" THEN "a" ELSE c
LowerAll(s) == [i \in 1 .. Len(s) |-> Lower(s[i])]
AlphaNum(c) == c \in {"a", "A", "1"}
Has(s, c) == \E i \in 1 .. Len(s) : s[i] = c
StartsWith(s, c) == s # <<>> /\ s[1] = c
EndsWith(s, c) == s # <<>> /\ s[Len(s)] = c

(* RESERVED_SLUGS.                                                             *)
Reserved == {<<"a", "1">>}

(* No reserved slug is longer than a slug may be.                              *)
LengthsAssumption ==
  /\ {MaxText, MaxSlugLen, InputCap} \subseteq Nat
  /\ \A s \in Reserved : Len(s) <= MaxSlugLen

Init ==
  /\ use \in {"slug", "host"}
  /\ input \in SeqOf(IF use = "slug" THEN Letters ELSE HostLetters, MaxText)
  /\ read = 0 /\ buf = <<>> /\ last_was_hyphen = FALSE /\ outcome = "scan"

-----------------------------------------------------------------------------
(* Slug::new: the first rule that is broken.                                   *)
SlugNew(s) ==
  IF s = <<>> THEN "empty"
  ELSE IF Len(s) > MaxSlugLen THEN "too_long"
  ELSE IF \E i \in 1 .. Len(s) : s[i] \notin {"a", "1", "-"} THEN "invalid_chars"
  ELSE IF \/ StartsWith(s, "-") \/ EndsWith(s, "-")
          \/ \E i \in 1 .. Len(s) - 1 : s[i] = "-" /\ s[i + 1] = "-" THEN "hyphen_layout"
  ELSE IF s \in Reserved THEN "reserved" ELSE "ok"

(* validate: a name that can be joined to the data directory.                  *)
DirName(s) ==
  /\ s # <<>> /\ ~ StartsWith(s, ".") /\ s \notin {<<".">>, <<".", ".">>}
  /\ \A c \in {"/", "\\", "0"} : ~ Has(s, c)

(* trim_matches.                                                               *)
Trim(s) ==
  LET inner == {i \in 1 .. Len(s) : s[i] # "-"} IN
  IF inner = {} THEN <<>>
  ELSE LET first == CHOOSE i \in inner : \A j \in inner : i <= j
           last == CHOOSE i \in inner : \A j \in inner : j <= i
       IN SubSeq(s, first, last)

Ends(o) == outcome' = o /\ UNCHANGED <<input, use, read, last_was_hyphen>>

TooLong ==
  /\ use = "slug" /\ outcome = "scan" /\ read = 0 /\ Len(input) > InputCap
  /\ Ends("too_long") /\ UNCHANGED buf

(* Mutant of ReadByte: a run of other characters is not collapsed.             *)
ReadByteEach ==
  /\ use = "slug" /\ outcome = "scan" /\ Len(input) <= InputCap /\ read < Len(input)
  /\ buf' = Append(buf, IF AlphaNum(input[read + 1]) THEN Lower(input[read + 1]) ELSE "-")
  /\ last_was_hyphen' = ~ AlphaNum(input[read + 1])
  /\ read' = read + 1
  /\ UNCHANGED <<input, use, outcome>>

(* derive_slug, one byte.                                                      *)
ReadByte ==
  /\ use = "slug" /\ outcome = "scan" /\ Len(input) <= InputCap /\ read < Len(input)
  /\ LET c == input[read + 1] IN
     /\ buf' = IF AlphaNum(c) THEN Append(buf, Lower(c))
               ELSE IF last_was_hyphen THEN buf ELSE Append(buf, "-")
     /\ last_was_hyphen' = ~ AlphaNum(c)
  /\ read' = read + 1
  /\ UNCHANGED <<input, use, outcome>>

Derive ==
  /\ use = "slug" /\ outcome = "scan" /\ Len(input) <= InputCap /\ read = Len(input)
  /\ buf' = Trim(buf)
  /\ Ends(IF Trim(buf) = <<>> THEN "unparseable" ELSE SlugNew(Trim(buf)))

-----------------------------------------------------------------------------
(* HostPattern::parse keeps the text in lower case or refuses it.              *)
Closing(s) == {i \in 1 .. Len(s) : s[i] = "]"}

HasPort(s) ==
  IF StartsWith(s, "[")
  THEN \A i \in Closing(s) : (\A j \in Closing(s) : i <= j) => i < Len(s)
  ELSE Has(s, ":")

(* Mutant of PatternError: brackets are not looked at.                         *)
PatternErrorPlain(s) ==
  IF s = <<>> THEN "empty"
  ELSE IF \E c \in {"e", " ", "0", "/", "\\", "*"} : Has(s, c) THEN "refused" ELSE "ok"

PatternError(s) ==
  IF s = <<>> THEN "empty"
  ELSE IF \E c \in {"e", " ", "0", "/", "\\", "*"} : Has(s, c) THEN "refused"
  ELSE IF StartsWith(s, "[") /\ Closing(s) = {} THEN "unclosed"
  ELSE IF HasPort(s) THEN "port" ELSE "ok"

ParsePattern ==
  /\ use = "host" /\ outcome = "scan"
  /\ buf' = LowerAll(input)
  /\ Ends(PatternError(input))

(* parse_host, for the Host header: a bracket up to its end, anything else up  *)
(* to the last colon.                                                          *)
ParseHost(raw) ==
  LET s == LowerAll(raw)
      colons == {i \in 1 .. Len(s) : s[i] = ":"}
  IN IF StartsWith(s, "[")
     THEN IF Closing(s) = {} THEN s
          ELSE SubSeq(s, 1, CHOOSE i \in Closing(s) : \A j \in Closing(s) : i <= j)
     ELSE IF colons = {} THEN s
          ELSE SubSeq(s, 1, (CHOOSE i \in colons : \A j \in colons : j <= i) - 1)

Next == TooLong \/ ReadByte \/ Derive \/ ParsePattern

Spec == Init /\ [][Next]_vars

-----------------------------------------------------------------------------
(* Properties                                                                  *)

(* The letters and digits among the first n characters of a display name, those *)
(* that begin a word, and where in the slug the last of them goes: one place     *)
(* each, and one for the hyphen before every word but the first.                 *)
Kept(n) == {k \in 1 .. n : AlphaNum(input[k])}

Begun(n) == {k \in Kept(n) : k > 1 => ~ AlphaNum(input[k - 1])}

Place(n) == Cardinality(Kept(n)) + Cardinality(Begun(n)) - 1

(* A derived slug is the words of the name in lower case, in order, with one   *)
(* hyphen between; it passes the rules a row is read back with, names a safe   *)
(* directory, and a name is refused only if its slug could not be used.        *)
SlugFits ==
  use = "slug" /\ outcome # "scan" /\ Len(input) <= InputCap =>
    LET all == Len(input) IN
    /\ \A k \in Kept(all) : buf[Place(k)] = Lower(input[k])
    /\ \A k \in Begun(all) : Place(k) > 1 => buf[Place(k) - 1] = "-"
    /\ Kept(all) # {} => Len(buf) = Place(all)
    /\ outcome = "ok" => SlugNew(buf) = "ok" /\ DirName(buf)
    /\ outcome = "unparseable" <=> Kept(all) = {}
    /\ outcome \in {"ok", "unparseable", "too_long", "reserved"}
    /\ outcome = "reserved" <=> buf \in Reserved

(* A name that is a slug already is its own slug.                              *)
SlugStable ==
  use = "slug" /\ outcome # "scan" /\ SlugNew(input) = "ok" /\ Len(input) <= InputCap =>
    outcome = "ok" /\ buf = input

(* A listed host is found again in a Host header, in any case, with and        *)
(* without a port.                                                             *)
ListedHostFound ==
  use = "host" /\ outcome = "ok" =>
    \A port \in {<<>>, <<":">>, <<":", "1">>} : ParseHost(input \o port) = buf
=============================================================================
