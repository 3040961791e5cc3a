------------------------------ MODULE ListField ------------------------------
(***************************************************************************)
(* The text fields of the Settings page that hold a list (DownloadsTab's   *)
(* extensions, AdvancedTab's hosts).  The form holds the list only: what is*)
(* on the screen is the list displayed, and each keystroke is parsed and   *)
(* displayed anew.                                                         *)
(***************************************************************************)
EXTENDS SequencesExt

CONSTANTS
  Letters,  \* the characters without a meaning to the field
  MaxText   \* bound: the characters of a text

Chars == Letters \cup {",", " ", "."}

VARIABLES
  kind,  \* "extensions" or "hosts"
  value  \* the list, each entry a sequence of characters

vars == <<kind, value>>

Trim(s) ==
  LET solid == {i \in DOMAIN s : s[i] # " "}
  IN IF solid = {} THEN <<>> ELSE SubSeq(s, Min(solid), Max(solid))

\* Mutant: an entry is taken with the blanks around it.
AsTyped(s) ==
  IF kind = "extensions" /\ s # <<>> /\ s[1] # "." THEN <<".">> \o s ELSE s

(* An extension gets its leading dot.                                      *)
Entry(s) ==
  LET e == Trim(s)
  IN IF kind = "extensions" /\ e # <<>> /\ e[1] # "." THEN <<".">> \o e ELSE e

Kept(piece) == IF Entry(piece) = <<>> THEN <<>> ELSE <<Entry(piece)>>

(* split, map and filter: the entries so far and the piece being read.     *)
Taken(r, c) ==
  IF c = "," THEN [list |-> r.list \o Kept(r.piece), piece |-> <<>>]
             ELSE [r EXCEPT !.piece = Append(@, c)]

Read(text) == FoldLeft(Taken, [list |-> <<>>, piece |-> <<>>], text)
Parse(text) == Read(text).list \o Kept(Read(text).piece)

Joined(text, e) == IF text = <<>> THEN e ELSE text \o <<",", " ">> \o e
Display(list) == FoldLeft(Joined, <<>>, list)

(* A list that this page has saved, or the default.                        *)
Init ==
  /\ kind \in {"extensions", "hosts"}
  /\ value \in {Parse(t) : t \in SeqOf(Chars, 3)}

(* One character in or out anywhere, or a comma put in by pasting a piece. *)
Key ==
  LET text == Display(value)
  IN /\ \/ /\ Len(text) < MaxText
           /\ \E i \in 1..(Len(text) + 1), c \in Chars :
                value' = Parse(InsertAt(text, i, c))
        \/ \E i \in DOMAIN text : value' = Parse(RemoveAt(text, i))
        \/ /\ Len(text) < MaxText - 1
           /\ \E c \in Chars : value' = Parse(text \o <<",", c>>)
     /\ UNCHANGED kind

Next == Key
Spec == Init /\ [][Next]_vars
-----------------------------------------------------------------------------
(* A keystroke changes one entry, splits one in two or joins two: all the  *)
(* entries before and after stay as they are, whatever is normalised in    *)
(* between; and what is on the screen means the list that is saved.        *)
KeystrokeIsLocal ==
  [][/\ \E p \in 0..Len(value) :
          /\ SubSeq(value, 1, p) = SubSeq(value', 1, p)
          /\ \E s \in 0..(Len(value) - p) :
               /\ Len(value) - p - s <= 2
               /\ Len(value') - p - s \in 0..2
               /\ SubSeq(value, Len(value) - s + 1, Len(value))
                    = SubSeq(value', Len(value') - s + 1, Len(value'))
     /\ Parse(Display(value')) = value']_vars
=============================================================================
