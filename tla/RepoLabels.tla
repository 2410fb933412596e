------------------------------ MODULE RepoLabels ------------------------------
(***************************************************************************)
(* escape and labelSafe (controller.go): the label value that kube-ci      *)
(* derives from a name and that it finds the workflows and the cache       *)
(* volumes of a repository by.  A name is the sequence of its characters.  *)
(***************************************************************************)
LOCAL INSTANCE Naturals
LOCAL INSTANCE Sequences
LOCAL INSTANCE SequencesExt

Small ==
    <<"a", "b", "c", "d", "e", "f", "g", "h", "i", "j", "k", "l", "m",
      "n", "o", "p", "q", "r", "s", "t", "u", "v", "w", "x", "y", "z">>
Capital ==
    <<"A", "B", "C", "D", "E", "F", "G", "H", "I", "J", "K", "L", "M",
      "N", "O", "P", "Q", "R", "S", "T", "U", "V", "W", "X", "Y", "Z">>
Digits == {"0", "1", "2", "3", "4", "5", "6", "7", "8", "9"}

ToLower(c) ==
    IF \E i \in DOMAIN Capital : Capital[i] = c
    THEN Small[CHOOSE i \in DOMAIN Capital : Capital[i] = c] ELSE c

\* Anything but a letter, a digit or a dash becomes a dash.
sanitize(c) ==
    IF ToLower(c) \in ToSet(Small) \cup Digits \cup {"-"} THEN ToLower(c) ELSE "-"

TrimStart(s, chars) ==
    LET first == SelectInSeq(s, LAMBDA c : c \notin chars)
    IN  IF first = 0 THEN <<>> ELSE SubSeq(s, first, Len(s))

TrimEnd(s, chars) == SubSeq(s, 1, SelectLastInSeq(s, LAMBDA c : c \notin chars))

\* A label starts with a letter, and ends with a letter or a digit.
sanitizeToDNS(s) == TrimEnd(TrimStart(s, Digits \cup {"-", "."}), {"-", "."})

escape(s) == sanitizeToDNS([i \in DOMAIN s |-> sanitize(s[i])])

\* Too long a name loses its beginning.
labelSafeLen(max, s) ==
    LET e == escape(s)
    IN  sanitizeToDNS(IF Len(e) > max THEN SubSeq(e, Len(e) - max + 1, Len(e)) ELSE e)

labelSafe(s) == labelSafeLen(50, s)
=============================================================================
