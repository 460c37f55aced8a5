------------------------------- MODULE Wording ------------------------------
(***************************************************************************)
(* What a customer's words mean (src/pkg/textnorm/textnorm.go and the routing *)
(* in src/internal/campaigns/service.go), who wrote them (src/pkg/phone), and  *)
(* what is written back (src/pkg/render).                                     *)
(*                                                                          *)
(* A text is a sequence of characters of an alphabet that has one of each     *)
(* sort the code tells apart: two letters, a capital, a combining mark and    *)
(* the letters it composes, two blanks, an invisible character, a dash and    *)
(* its look-alike, braces, digits and signs.                                  *)
(***************************************************************************)
EXTENDS Integers, Sequences, FiniteSets, SequencesExt

CONSTANTS MinDigits, MaxDigits   \* the lengths of a telephone number

ASSUME WordingAssumption == MinDigits \in Nat \ {0} /\ MaxDigits \in Nat

Blank(c) == c \in {" ", "tab", "newline"}
Ignorable(c) == c \in {"zwj", "bom"}
WordRune(c) == c \in {"a", "b", "A", "a:", "A:", "7", "0"}

\* The places of s that are kept, in order, and what stands there.
Places(s, kept) ==
  LET upTo[n \in 0..Len(s)] ==
        IF n = 0 THEN <<>> ELSE IF n \in kept THEN Append(upTo[n - 1], n) ELSE upTo[n - 1]
  IN upTo[Len(s)]

Kept(s, kept) == LET order == Places(s, kept) IN [k \in DOMAIN order |-> s[order[k]]]

\* norm.NFKC: a letter and the mark after it become one character.
Composed(s) ==
  LET base(i) == i < Len(s) /\ s[i] \in {"a", "A"} /\ s[i + 1] = ":"
      mark(i) == i > 1 /\ base(i - 1)
      kept == Places(s, {i \in DOMAIN s : ~mark(i)})
  IN [k \in DOMAIN kept |->
        LET i == kept[k] IN
        IF ~base(i) THEN s[i] ELSE IF s[i] = "a" THEN "a:" ELSE "A:"]

FoldLookalike(c) == IF c = "--" THEN "-" ELSE c
FoldCase(c) == IF c = "A" THEN "a" ELSE IF c = "A:" THEN "a:" ELSE c

\* Mutant: only runs of the ordinary blank collapse.
CollapsedOnce(s) ==
  LET inner(i) == \E j, k \in DOMAIN s : j < i /\ i < k /\ ~Blank(s[j]) /\ ~Blank(s[k])
  IN Kept([i \in DOMAIN s |-> IF Blank(s[i]) THEN " " ELSE s[i]],
          {i \in DOMAIN s : ~Blank(s[i]) \/ (inner(i) /\ s[i + 1] # s[i])})

\* A run of blanks becomes one between two others, and nothing at either end.
Collapsed(s) ==
  LET inner(i) == \E j, k \in DOMAIN s : j < i /\ i < k /\ ~Blank(s[j]) /\ ~Blank(s[k])
  IN Kept([i \in DOMAIN s |-> IF Blank(s[i]) THEN " " ELSE s[i]],
          {i \in DOMAIN s : ~Blank(s[i]) \/ (inner(i) /\ ~Blank(s[i + 1]))})

Normalize(s) ==
  LET whole == Composed(s)
      shown == Collapsed(Kept(whole, {i \in DOMAIN whole : ~Ignorable(whole[i])}))
  IN [i \in DOMAIN shown |-> FoldCase(FoldLookalike(shown[i]))]

-----------------------------------------------------------------------------
Occurs(kw, s, i) == i + Len(kw) - 1 <= Len(s) /\ \A k \in DOMAIN kw : s[i + k - 1] = kw[k]

StartsOnBoundary(s, i) == i = 1 \/ ~WordRune(s[i - 1])
EndsOnBoundary(s, i) == i >= Len(s) \/ ~WordRune(s[i + 1])

\* Mutant: the search goes on after the occurrence, not within it.
ContainsAfter(s, kw) ==
  LET found[from \in 1..(Len(s) + Len(kw) + 1)] ==
        LET at == {i \in from..Len(s) : Occurs(kw, s, i)}
            first == CHOOSE i \in at : \A j \in at : i <= j
        IN at # {} /\ \/ StartsOnBoundary(s, first) /\ EndsOnBoundary(s, first + Len(kw) - 1)
                      \/ found[first + Len(kw)]
  IN found[1]

\* The loop of CONTAINS: from each occurrence that is not a whole word, on.
ContainsWord(s, kw) ==
  LET found[from \in 1..(Len(s) + 1)] ==
        LET at == {i \in from..Len(s) : Occurs(kw, s, i)}
            first == CHOOSE i \in at : \A j \in at : i <= j
        IN at # {} /\ \/ StartsOnBoundary(s, first) /\ EndsOnBoundary(s, first + Len(kw) - 1)
                      \/ found[first + 1]
  IN found[1]

Matches(s, kw, mode) ==
  /\ s # <<>> /\ kw # <<>>
  /\ \/ mode = "EXACT" /\ s = kw
     \/ mode = "STARTS_WITH" /\ Occurs(kw, s, 1) /\ EndsOnBoundary(s, Len(kw))
     \/ mode = "CONTAINS" /\ ContainsWord(s, kw)

Modes == <<"EXACT", "STARTS_WITH", "CONTAINS">>

\* ActiveTriggers: exact ones first, then longer ones, then older ones.
Before(t, u) ==
  LET m(x) == CHOOSE i \in 1..3 : Modes[i] = x.mode
      l(x) == Len(x.normalized)
  IN \/ m(t) < m(u)
     \/ m(t) = m(u) /\ (l(t) > l(u) \/ (l(t) = l(u) /\ t.age > u.age))

\* MatchTrigger: the campaign a message enrols into, 0 for none.  A trigger has its
\* keyword as it was normalised when it was saved.
MatchTrigger(triggers, s) ==
  LET text == Normalize(s)
      hits == {t \in triggers : Matches(text, t.normalized, t.mode)} IN
  IF hits = {} THEN 0 ELSE (CHOOSE t \in hits : \A u \in hits \ {t} : Before(t, u)).campaign

IsUnsubscribe(keywords, s) ==
  LET text == Normalize(s) IN \E kw \in keywords : Matches(text, Normalize(kw), "EXACT")

-----------------------------------------------------------------------------
(***************************************************************************)
(* Telephone numbers: digits, and the signs people write between them.       *)
(***************************************************************************)
Digit(c) == c \in {"0", "7"}

IsGroupChatID(s) == s # <<>> /\ Last(s) = "@g.us"

\* phone.Normalize: <<>> stands for its errors.
Phone(s) ==
  LET at == {i \in DOMAIN s : s[i] \in {"@c.us", "@g.us"}}
      number == IF at = {} THEN s ELSE SubSeq(s, 1, (CHOOSE i \in at : \A j \in at : i <= j) - 1)
      digits == Kept(number, {i \in DOMAIN number : Digit(number[i])})
  IN IF IsGroupChatID(s) \/ Len(digits) \notin MinDigits..MaxDigits \/ digits[1] = "0"
     THEN <<>> ELSE digits

ChatID(s) == IF Phone(s) = <<>> THEN <<>> ELSE Append(Phone(s), "@c.us")

-----------------------------------------------------------------------------
(***************************************************************************)
(* Templates: {{key}} is replaced, and what an empty value leaves is tidied.  *)
(***************************************************************************)
At(s, i, c) == i + 1 <= Len(s) /\ s[i] = c /\ s[i + 1] = c

First(S) == CHOOSE i \in S : \A j \in S : i <= j

Trimmed(s) ==
  LET seen == {i \in DOMAIN s : ~Blank(s[i])} IN
  IF seen = {} THEN <<>> ELSE SubSeq(s, First(seen), CHOOSE i \in seen : \A j \in seen : i >= j)

\* Mutant: an unknown key is left for the operator to see.
LookupVerbatim(key, context) ==
  IF Trimmed(key) \in DOMAIN context.values THEN context.values[Trimmed(key)]
  ELSE <<"{", "{">> \o key \o <<"}", "}">>

\* A blank value gives way to the fallback, and an unknown key to nothing.
Lookup(key, context) ==
  LET k == [i \in DOMAIN Trimmed(key) |-> FoldCase(Trimmed(key)[i])] IN
  IF k \in DOMAIN context.values /\ Trimmed(context.values[k]) # <<>> THEN context.values[k]
  ELSE IF k \in DOMAIN context.fallback THEN context.fallback[k]
  ELSE <<>>

\* The loop of Render; a placeholder that is not closed stays as it is.
Replaced(s, context) ==
  LET from[n \in 1..(Len(s) + 2)] ==
        LET opens == {i \in n..Len(s) : At(s, i, "{")}
            closes == {i \in (First(opens) + 2)..Len(s) : At(s, i, "}")}
        IN IF opens = {} \/ closes = {} THEN SubSeq(s, n, Len(s))
           ELSE SubSeq(s, n, First(opens) - 1)
                \o Lookup(SubSeq(s, First(opens) + 2, First(closes) - 1), context)
                \o from[First(closes) + 2]
  IN from[1]

\* tidy: single blanks, none at the end of a line, at most one empty line.
Tidied(s) ==
  LET spaced == Kept(s, {i \in DOMAIN s : s[i] = " " => i < Len(s) /\ s[i + 1] \notin {" ", "newline"}})
      kept(i) == \/ spaced[i] # "newline"
                 \/ /\ \E j \in (i + 1)..Len(spaced) : spaced[j] # "newline"
                    /\ ~(i > 1 /\ spaced[i - 1] = "newline" /\ (i = 2 \/ spaced[i - 2] = "newline"))
  IN Kept(spaced, {i \in DOMAIN spaced : kept(i)})

Render(s, context) ==
  IF \E i \in DOMAIN s : At(s, i, "{") THEN Tidied(Replaced(s, context)) ELSE s
=============================================================================
