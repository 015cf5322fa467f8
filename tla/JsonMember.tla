----------------------------- MODULE JsonMember -----------------------------
(***************************************************************************)
(* Inserting and deleting one member of a JSON object without touching the *)
(* rest of the text (src/harness/jsonMember.ts).                           *)
(*                                                                         *)
(* A text is a sequence of tokens: braces, commas, blanks, member names    *)
(* (with the colon and the blanks that follow it), and values that are not *)
(* objects.  Indentation is abstracted: a blank is a blank.  Every text    *)
(* these operators meet parses as JSON, as the code's callers have made    *)
(* sure.  An index of 0 stands for the code's undefined.                   *)
(***************************************************************************)
EXTENDS Naturals, SequencesExt

Open == <<"{">>
Close == <<"}">>
Comma == <<",">>
Blank == <<"blank">>
Name(n) == <<"name", n>>

Cut(text, from, to) == SubSeq(text, from, to)
Rest(text, from) == SubSeq(text, from, Len(text))

(* skipWhitespace                                                          *)
SkipBlanks(text, i) ==
  CHOOSE j \in i .. Len(text) + 1 :
    /\ j > Len(text) \/ text[j] # Blank
    /\ \A k \in i .. j - 1 : text[k] = Blank

(* rootObjectStart                                                         *)
RootObjectStart(text) ==
  LET start == SkipBlanks(text, 1)
  IN  IF start <= Len(text) /\ text[start] = Open THEN start ELSE 0

(* How many objects that begin between the two indices are open after them.*)
Nesting(text, from, to) ==
  Cardinality({k \in from .. to : text[k] = Open})
    - Cardinality({k \in from .. to : text[k] = Close})

(* scanValue: the last token of the value that begins at i.                *)
ValueEnd(text, i) ==
  CHOOSE j \in i .. Len(text) :
    /\ Nesting(text, i, j) = 0
    /\ \A k \in i .. j - 1 : Nesting(text, i, k) > 0

(* Where the object at open has members of this name.                      *)
Members(text, open, name) ==
  {k \in open + 1 .. ValueEnd(text, open) : text[k] = Name(name) /\ Nesting(text, open, k) = 1}

(* findMember: where the name of the member stands in the object at open.  *)
FindMember(text, open, name) ==
  LET own == Members(text, open, name)
  IN  IF own = {} THEN 0 ELSE CHOOSE k \in own : \A other \in own : k <= other

(* What parses as a JSON object: one object between blanks, whose braces   *)
(* match, and a value behind every name.                                   *)
IsName(token) == token[1] = "name"
IsScalar(token) == token[1] \notin {"{", "}", ",", "blank", "name"}

ObjectAt(text, open, close) ==
  /\ open \in DOMAIN text /\ close \in DOMAIN text /\ open < close
  /\ text[open] = Open
  /\ Nesting(text, open, close) = 0
  /\ \A k \in open .. close - 1 : Nesting(text, open, k) > 0

RootAt(text, open, close) ==
  /\ ObjectAt(text, open, close)
  /\ \A k \in DOMAIN text : k < open \/ k > close => text[k] = Blank

IsObject(text) ==
  /\ \E open, close \in DOMAIN text : RootAt(text, open, close)
  /\ \A k \in DOMAIN text : IsName(text[k]) =>
       k < Len(text) /\ (text[k + 1] = Open \/ IsScalar(text[k + 1]))

(* setMember: replaces the member in place, or inserts it in front of the  *)
(* others; into an empty object with a line break on both sides.           *)
SetMember(text, open, name, value) ==
  LET at == FindMember(text, open, name)
      after == SkipBlanks(text, open + 1)
      member == <<Name(name)>> \o value
  IN  IF at # 0
      THEN Cut(text, 1, at - 1) \o member \o Rest(text, ValueEnd(text, at + 1) + 1)
      ELSE Cut(text, 1, open) \o <<Blank>> \o member \o
           (IF text[after] = Close THEN <<Blank>> \o Rest(text, after)
            ELSE <<Comma>> \o Rest(text, open + 1))

(* The first of the blanks that end before index i, in the object at open. *)
BlanksBefore(text, open, i) ==
  CHOOSE j \in open + 1 .. i :
    /\ \A k \in j .. i - 1 : text[k] = Blank
    /\ j = open + 1 \/ text[j - 1] # Blank

(* The separator that goes with the member: the comma after it, or the one *)
(* in front of the last member, or the blanks around the only one.         *)
Deleted(text, start, after, end) ==
  IF text[after] = Comma THEN Cut(text, 1, start - 1) \o Rest(text, after + 1)
  ELSE IF text[start - 1] = Comma THEN Cut(text, 1, start - 2) \o Rest(text, end + 1)
  ELSE Cut(text, 1, start - 1) \o Rest(text, after)

(* deleteMember                                                            *)
DeleteMember(text, open, name) ==
  LET at == FindMember(text, open, name)
      end == ValueEnd(text, at + 1)
  IN  IF at = 0 THEN text
      ELSE Deleted(text, BlanksBefore(text, open, at), SkipBlanks(text, end + 1), end)

(* The tokens outside a set, each with its place among them.               *)
Among(text, but) ==
  {<<Cardinality({j \in 1 .. k : text[j] \notin but}), text[k]>> :
     k \in {k \in DOMAIN text : text[k] \notin but}}
=============================================================================
