--------------------------- MODULE CommandLineProofs ---------------------------
(***************************************************************************)
(* The parser, the options and the search, for every command line, however *)
(* many words it has, and every tree of directories.                       *)
(*                                                                         *)
(* What a word is for is a recursive function of the words before it.      *)
(* That there is such a function is an induction over the words, which is  *)
(* made here with the least word for which there is none.  The search is   *)
(* about sets: the reads of the paths that lead to a place, and where that *)
(* place stands in what has been found.                                    *)
(***************************************************************************)
EXTENDS CommandLine, WellFoundedInduction, FiniteSetTheorems, SequenceTheorems, TLAPS

LEMMA LeastOf ==
  ASSUME NEW T \in SUBSET Nat, T # {}
  PROVE  \E n \in T : \A k \in T : ~ (k < n)
<1> DEFINE R == OpToRel(<, Nat)
<1>1. \E n \in T : \A k \in T : <<k, n>> \notin R
  <2>1. IsWellFoundedOn(R, Nat)
    BY NatLessThanWellFounded, Zenon
  <2> HIDE DEF R
  <2>2. QED
    BY <2>1, WFMin, Zenon
<1>2. \A k, n \in Nat : k < n => <<k, n>> \in R
  BY SMT DEF OpToRel
<1>3. QED
  BY <1>1, <1>2

(* f says what each of the first n words is for.                           *)
Says(f, words, n) ==
  f = [k \in 0 .. n |-> IF k = 0 THEN "word" ELSE RoleAfter(words, k, f[k - 1])]

LEMMA SomethingSays ==
  ASSUME NEW words, NEW n \in Nat
  PROVE  \E f : Says(f, words, n)
<1> DEFINE T == { m \in Nat : ~ \E f : Says(f, words, m) }
<1>1. SUFFICES ASSUME T # {} PROVE FALSE
  OBVIOUS
<1>2. PICK m \in T : \A k \in T : ~ (k < m)
  BY <1>1, LeastOf
<1>3. CASE m = 0
  <2>1. Says([k \in 0 .. 0 |-> "word"], words, 0)
    BY DEF Says
  <2>2. QED
    BY <1>2, <1>3, <2>1
<1>4. CASE m > 0
  <2>1. m - 1 \in Nat /\ m - 1 < m /\ m \in Nat
    BY <1>2, <1>4
  <2>2. m - 1 \notin T
    BY <1>2, <2>1
  <2>3. PICK f : Says(f, words, m - 1)
    BY <2>1, <2>2
  <2> DEFINE g == [k \in 0 .. m |-> IF k < m THEN f[k] ELSE RoleAfter(words, m, f[m - 1])]
  <2>4. ASSUME NEW k \in 0 .. m
        PROVE  g[k] = IF k = 0 THEN "word" ELSE RoleAfter(words, k, g[k - 1])
    <3>1. CASE k = 0
      BY <1>4, <2>1, <2>3, <3>1 DEF Says
    <3>2. CASE k > 0 /\ k < m
      <4>1. g[k] = f[k] /\ g[k - 1] = f[k - 1]
        BY <2>1, <3>2
      <4>2. k \in 0 .. m - 1 /\ f[k] = RoleAfter(words, k, f[k - 1])
        BY <2>1, <2>3, <3>2 DEF Says
      <4>3. QED
        BY <3>2, <4>1, <4>2
    <3>3. CASE k = m
      <4>1. g[m] = RoleAfter(words, m, f[m - 1]) /\ g[m - 1] = f[m - 1]
        BY <1>4, <2>1
      <4>2. QED
        BY <1>4, <3>3, <4>1
    <3>4. QED
      BY <2>1, <3>1, <3>2, <3>3
  <2>5. g = [k \in 0 .. m |-> IF k = 0 THEN "word" ELSE RoleAfter(words, k, g[k - 1])]
    BY <2>4
  <2>6. Says(g, words, m)
    BY <2>5 DEF Says
  <2>7. QED
    BY <1>2, <2>6
<1>5. QED
  BY <1>2, <1>3, <1>4

(* The role of each word follows from that of the one before it.           *)
LEMMA RolesAre ==
  ASSUME NEW words, Len(words) \in Nat
  PROVE  Says(RolesOf(words), words, Len(words))
<1>1. RolesOf(words) = CHOOSE f : Says(f, words, Len(words))
  BY DEF RolesOf, Says
<1>2. QED
  BY <1>1, SomethingSays

LEMMA RoleIs ==
  ASSUME NEW words, Len(words) \in Nat
  PROVE  /\ RolesOf(words)[0] = "word"
         /\ \A k \in 1 .. Len(words) : RolesOf(words)[k] = RoleAfter(words, k, RolesOf(words)[k - 1])
<1> DEFINE f == RolesOf(words)
           n == Len(words)
<1>1. f = [k \in 0 .. n |-> IF k = 0 THEN "word" ELSE RoleAfter(words, k, f[k - 1])]
  BY RolesAre DEF Says
<1> HIDE DEF f
<1>2. f[0] = "word" /\ \A k \in 1 .. n : f[k] = RoleAfter(words, k, f[k - 1])
  BY <1>1
<1>3. QED
  BY <1>2 DEF f
-----------------------------------------------------------------------------
Params == DOMAIN Int32
ParsedArg ==
  [arg_type : {"OPTION"}, prefix : {"-", "--", ":"}, value : STRING, param : Params, argi : Nat \ {0}]
    \union
  [arg_type : {"POSITIONAL"}, prefix : {Nothing}, value : DOMAIN Lex, param : {Nothing}, argi : Nat \ {0}]

(* The arguments of p that word k was parsed into.                         *)
Mine(p, k) == { i \in DOMAIN p : p[i].argi = k }

(* Word k of the words before argi is where it belongs.                    *)
IsPath(p, k) == \E i \in Mine(p, k) : p[i].arg_type = "POSITIONAL"
Uses(role, word) ==
  IF role \in {"stop", "param"} THEN 0 ELSE IF role = "-" THEN Len(word.names) ELSE 1
Placed(p, words, k, before) ==
  /\ (RolesOf(words)[k] \in {"word", "rest"}) <=> IsPath(p, k)
  /\ Cardinality(Mine(p, k)) = Uses(RolesOf(words)[k], Lex[words[k]])
  /\ (k + 1 < before /\ RolesOf(words)[k + 1] = "param") => \A i \in Mine(p, k) : p[i].param = words[k + 1]

(* What the parser has made of the words before argi, and how it takes the *)
(* one at argi.                                                            *)
AllBefore(p, a) == \A i \in DOMAIN p : p[i].argi < a

ParserType ==
  /\ argv \in Seq(DOMAIN Lex) /\ argi \in Nat \ {0} /\ stopped \in BOOLEAN
  /\ pargs \in Seq(ParsedArg)
InOrder == \A i, j \in DOMAIN pargs : i < j => pargs[i].argi <= pargs[j].argi
WordsBefore == AllBefore(pargs, argi)
AllPlaced == \A k \in 1 .. argi - 1 : Placed(pargs, argv, k, argi)
Ahead == argi <= Len(argv) => Roles[argi] = IF stopped THEN "rest" ELSE Word.shape
ParserInv ==
  /\ ParserType /\ argi <= Len(argv) + 1
  /\ WordsBefore /\ InOrder /\ AllPlaced /\ Ahead
  /\ cli \in {"options", "search", "playing"} => argi = Len(argv) + 1

LEMMA ParserInvImplies == ParserInv => WordsUsedOnce
<1> SUFFICES ASSUME ParserInv, cli \in {"options", "search", "playing"}
             PROVE  /\ \A i, j \in DOMAIN pargs : i < j => pargs[i].argi <= pargs[j].argi
                    /\ \A k \in 1 .. Len(argv) :
                         LET mine == { i \in DOMAIN pargs : pargs[i].argi = k }
                             role == Roles[k]
                         IN  /\ (role \in {"word", "rest"}) <=> \E i \in mine : pargs[i].arg_type = "POSITIONAL"
                             /\ Cardinality(mine) = IF role \in {"stop", "param"} THEN 0
                                                    ELSE IF role = "-" THEN Len(Lex[argv[k]].names) ELSE 1
                             /\ (k < Len(argv) /\ Roles[k + 1] = "param") => \A i \in mine : pargs[i].param = argv[k + 1]
  BY DEF WordsUsedOnce
<1>1. argi = Len(argv) + 1 /\ Len(argv) \in Nat
  BY DEF ParserInv, ParserType
<1>2. ASSUME NEW k \in 1 .. Len(argv)
      PROVE  Placed(pargs, argv, k, argi) /\ (k < Len(argv) => k + 1 < argi)
  BY <1>1, <1>2 DEF ParserInv, AllPlaced
<1>3. QED
  BY <1>2 DEF ParserInv, InOrder, Placed, IsPath, Mine, Uses, Roles

(* The new arguments come after the old ones, all of the word a.           *)
NewOnes(p, n) == Len(p) + 1 .. Len(p) + n
Extends(p, q, n, a) ==
  /\ Len(q) = Len(p) + n
  /\ \A i \in 1 .. Len(p) : q[i] = p[i]
  /\ \A i \in NewOnes(p, n) : q[i].argi = a

LEMMA NewOnesAreMine ==
  ASSUME NEW p \in Seq(ParsedArg), NEW q \in Seq(ParsedArg), NEW n \in Nat, NEW a \in Nat,
         Extends(p, q, n, a), AllBefore(p, a)
  PROVE  /\ Mine(q, a) = NewOnes(p, n)
         /\ \A k \in Nat : k # a => Mine(q, k) = Mine(p, k)
         /\ \A k \in Nat : k > a => Mine(q, k) = {}
<1>1. Len(p) \in Nat /\ DOMAIN p = 1 .. Len(p) /\ DOMAIN q = 1 .. Len(p) + n
  BY DEF Extends
<1>2. \A i \in DOMAIN q : IF i <= Len(p) THEN q[i] = p[i] ELSE q[i].argi = a
  BY <1>1 DEF Extends, NewOnes
<1>3. \A i \in DOMAIN p : p[i].argi \in Nat
  <2>1. \A i \in DOMAIN p : p[i] \in ParsedArg
    BY <1>1
  <2>2. QED
    BY <2>1 DEF ParsedArg
<1>4. \A i \in DOMAIN p : i <= Len(p) /\ i \in DOMAIN q /\ p[i].argi < a
  BY <1>1 DEF AllBefore
<1>5. ASSUME NEW k \in Nat, k # a
      PROVE  Mine(q, k) = Mine(p, k)
  <2>1. ASSUME NEW i, i \in DOMAIN q, q[i].argi = k
        PROVE  i \in DOMAIN p /\ p[i].argi = k
    BY <1>1, <1>2, <1>5, <2>1
  <2>2. ASSUME NEW i, i \in DOMAIN p
        PROVE  i \in DOMAIN q /\ q[i] = p[i]
    BY <1>2, <1>4, <2>2
  <2>3. QED
    BY <2>1, <2>2 DEF Mine
<1>6. ASSUME NEW i
      PROVE  i \in Mine(q, a) <=> i \in NewOnes(p, n)
  BY <1>1, <1>2, <1>3, <1>4 DEF Mine, NewOnes
<1>7. ASSUME NEW k \in Nat, k > a
      PROVE  Mine(p, k) = {}
  BY <1>3, <1>4, <1>7 DEF Mine
<1>8. Mine(q, a) = NewOnes(p, n)
  BY <1>6 DEF Mine, NewOnes
<1>9. QED
  BY <1>5, <1>7, <1>8

(* Words that were placed before stay so.                                  *)
LEMMA PlacedStays ==
  ASSUME NEW p \in Seq(ParsedArg), NEW q \in Seq(ParsedArg), NEW words, NEW n \in Nat, NEW a \in Nat,
         NEW b, NEW k \in 1 .. a - 1, Extends(p, q, n, a), AllBefore(p, a),
         Placed(p, words, k, a), RolesOf(words)[a] # "param"
  PROVE  Placed(q, words, k, b)
<1>1. Mine(q, k) = Mine(p, k) /\ Mine(p, k) \subseteq 1 .. Len(p)
  BY NewOnesAreMine DEF Mine
<1>2. \A i \in Mine(p, k) : q[i] = p[i]
  BY <1>1 DEF Extends
<1>3. IsPath(q, k) <=> IsPath(p, k)
  BY <1>1, <1>2 DEF IsPath
<1>4. RolesOf(words)[k + 1] = "param" => k + 1 < a
  OBVIOUS
<1>5. QED
  BY <1>1, <1>2, <1>3, <1>4 DEF Placed

LEMMA SizeOfNew ==
  ASSUME NEW m \in Nat, NEW n \in Nat
  PROVE  Cardinality(m + 1 .. m + n) = n
<1>1. m + 1 \in Int /\ m + n \in Int
  OBVIOUS
<1>2. Cardinality(m + 1 .. m + n) = IF m + 1 > m + n THEN 0 ELSE m + n - (m + 1) + 1
  BY <1>1, FS_Interval
<1>3. QED
  BY <1>2

(* The word that is parsed is where it belongs.                            *)
LEMMA PlacedHere ==
  ASSUME NEW p \in Seq(ParsedArg), NEW q \in Seq(ParsedArg), NEW words, NEW n \in Nat, NEW a \in Nat,
         NEW b, Extends(p, q, n, a), AllBefore(p, a),
         Uses(RolesOf(words)[a], Lex[words[a]]) = n,
         \A i \in NewOnes(p, n) :
            /\ q[i].arg_type = "POSITIONAL" <=> RolesOf(words)[a] \in {"word", "rest"}
            /\ (a + 1 < b /\ RolesOf(words)[a + 1] = "param") => q[i].param = words[a + 1]
  PROVE  Placed(q, words, a, b)
<1>1. Mine(q, a) = NewOnes(p, n)
  BY NewOnesAreMine
<1>2. Len(p) \in Nat
  OBVIOUS
<1>3. Cardinality(Mine(q, a)) = n
  BY <1>1, <1>2, SizeOfNew DEF NewOnes
<1>4. RolesOf(words)[a] \in {"word", "rest"} => n = 1
  BY DEF Uses
<1>5. n = 1 => Len(p) + 1 \in Mine(q, a)
  BY <1>1, <1>2 DEF NewOnes
<1>6. IsPath(q, a) <=> RolesOf(words)[a] \in {"word", "rest"}
  BY <1>1, <1>4, <1>5 DEF IsPath
<1>7. QED
  BY <1>1, <1>3, <1>6 DEF Placed

(* A parameter that was a word of its own is no argument.                  *)
LEMMA PlacedParam ==
  ASSUME NEW p \in Seq(ParsedArg), NEW q \in Seq(ParsedArg), NEW words, NEW n \in Nat, NEW a \in Nat,
         Extends(p, q, n, a), AllBefore(p, a),
         RolesOf(words)[a + 1] = "param"
  PROVE  Placed(q, words, a + 1, a + 2)
<1>1. Mine(q, a + 1) = {}
  BY NewOnesAreMine
<1>2. Cardinality(Mine(q, a + 1)) = 0 /\ ~ IsPath(q, a + 1)
  BY <1>1, FS_EmptySet DEF IsPath
<1>3. QED
  BY <1>2 DEF Placed, Uses

(* A step of the parser that makes n arguments of the word at argi, and    *)
(* takes the next one as well when by is 2.                                *)
Takes(n, by) ==
  /\ argv' = argv /\ argi' = argi + by /\ argi' <= Len(argv) + 1
  /\ pargs' \in Seq(ParsedArg) /\ Extends(pargs, pargs', n, argi)
  /\ stopped' \in BOOLEAN
  /\ cli \notin {"options", "search", "playing"} /\ cli' = cli

LEMMA TakesKeeps ==
  ASSUME ParserInv, NEW n \in Nat, NEW by \in 1 .. 2, Takes(n, by), Roles[argi] # "param",
         Placed(pargs', argv, argi, argi'), by = 2 => Roles[argi + 1] = "param", Ahead'
  PROVE  ParserInv'
<1>1. ParserType' /\ (argi <= Len(argv) + 1)'
  BY DEF ParserInv, ParserType, Takes
<1>2. /\ Len(pargs) \in Nat /\ DOMAIN pargs = 1 .. Len(pargs)
      /\ DOMAIN pargs' = 1 .. Len(pargs) + n
      /\ argi \in Nat /\ pargs \in Seq(ParsedArg) /\ pargs' \in Seq(ParsedArg)
  BY DEF ParserInv, ParserType, Takes, Extends
<1>3. \A i \in DOMAIN pargs' : IF i <= Len(pargs) THEN pargs'[i] = pargs[i] ELSE pargs'[i].argi = argi
  BY <1>2 DEF Takes, Extends, NewOnes
<1>4. \A i \in DOMAIN pargs : pargs[i].argi \in Nat /\ pargs[i].argi < argi
  <2>1. \A i \in DOMAIN pargs : pargs[i] \in ParsedArg
    BY <1>2
  <2>2. QED
    BY <2>1 DEF ParsedArg, ParserInv, WordsBefore, AllBefore
<1>5. WordsBefore'
  BY <1>2, <1>3, <1>4 DEF WordsBefore, AllBefore, Takes
<1>6. InOrder'
  <2>1. ASSUME NEW i \in DOMAIN pargs', NEW j \in DOMAIN pargs', i < j
        PROVE  pargs'[i].argi <= pargs'[j].argi
    <3>1. CASE j <= Len(pargs)
      BY <1>2, <1>3, <2>1, <3>1 DEF ParserInv, InOrder
    <3>2. CASE j > Len(pargs)
      BY <1>2, <1>3, <1>4, <2>1, <3>2
    <3>3. QED
      BY <1>2, <3>1, <3>2
  <2>2. QED
    BY <2>1 DEF InOrder
<1>7. ASSUME NEW k \in 1 .. argi' - 1
      PROVE  Placed(pargs', argv, k, argi')
  <2>1. CASE k < argi
    <3>1. Placed(pargs, argv, k, argi) /\ k \in 1 .. argi - 1
      BY <1>2, <1>7, <2>1 DEF ParserInv, AllPlaced
    <3>2. Extends(pargs, pargs', n, argi) /\ AllBefore(pargs, argi)
      BY <1>4 DEF Takes, AllBefore
    <3>3. QED
      BY <1>2, <3>1, <3>2, PlacedStays DEF Roles
  <2>2. CASE k = argi
    BY <2>2
  <2>3. CASE k = argi + 1 /\ by = 2
    <3>1. Extends(pargs, pargs', n, argi) /\ argi' = argi + 2
          /\ AllBefore(pargs, argi) /\ RolesOf(argv)[argi + 1] = "param"
      BY <1>4, <2>3 DEF Takes, Roles, AllBefore
    <3>2. Placed(pargs', argv, argi + 1, argi + 2)
      BY <1>2, <3>1, PlacedParam
    <3>3. QED
      BY <2>3, <3>1, <3>2
  <2>4. k < argi \/ k = argi \/ (k = argi + 1 /\ by = 2)
    BY <1>2, <1>7 DEF Takes
  <2>5. QED
    BY <2>1, <2>2, <2>3, <2>4
<1>8. AllPlaced'
  BY <1>7 DEF AllPlaced, Takes
<1>9. QED
  BY <1>1, <1>5, <1>6, <1>8 DEF ParserInv, Takes

(* Facts about the word at argi, for the steps that parse it.              *)
LEMMA WordFacts ==
  ASSUME ParserInv, argi <= Len(argv)
  PROVE  /\ argi \in 1 .. Len(argv) /\ Len(argv) \in Nat /\ argv[argi] \in DOMAIN Lex
         /\ Word.shape \in {"-", "--", ":", "stop", "word"}
         /\ Roles[argi] = IF stopped THEN "rest" ELSE Word.shape
         /\ \A k \in 1 .. Len(argv) : Roles[k] = RoleAfter(argv, k, Roles[k - 1])
         /\ pargs \in Seq(ParsedArg) /\ AllBefore(pargs, argi) /\ stopped \in BOOLEAN
<1>1. argv \in Seq(DOMAIN Lex) /\ argi \in Nat \ {0} /\ pargs \in Seq(ParsedArg) /\ stopped \in BOOLEAN
  BY DEF ParserInv, ParserType
<1>2. argi \in 1 .. Len(argv) /\ Len(argv) \in Nat /\ argv[argi] \in DOMAIN Lex
  BY <1>1
<1>3. Word.shape \in {"-", "--", ":", "stop", "word"}
  BY <1>2, WordsAssumption DEF Word
<1>4. Roles[argi] = IF stopped THEN "rest" ELSE Word.shape
  BY DEF ParserInv, Ahead
<1>5. \A k \in 1 .. Len(argv) : Roles[k] = RoleAfter(argv, k, Roles[k - 1])
  BY <1>2, RoleIs DEF Roles
<1>6. AllBefore(pargs, argi)
  BY DEF ParserInv, WordsBefore
<1>7. QED
  BY <1>1, <1>2, <1>3, <1>4, <1>5, <1>6

LEMMA KeepsItsShape ==
  ASSUME NEW words, NEW k, NEW before, before \notin {"stop", "rest"},
         ~ (before \in {"--", ":"} /\ Wants(Lex[words[k - 1]]))
  PROVE  RoleAfter(words, k, before) = Lex[words[k]].shape
<1>1. before # "stop" /\ before # "rest"
  OBVIOUS
<1>2. QED
  BY <1>1 DEF RoleAfter

(* What the next word is, when the one at argi does not want it.           *)
LEMMA AheadAfter ==
  ASSUME ParserInv, argi <= Len(argv), argv' = argv, stopped' = stopped, argi' = argi + 1,
         ~ stopped => Word.shape # "stop" /\ (Word.shape \in {"--", ":"} => ~ Wants(Word))
  PROVE  Ahead'
<1> SUFFICES ASSUME argi + 1 <= Len(argv)
             PROVE  RolesOf(argv)[argi + 1] = IF stopped THEN "rest" ELSE Lex[argv[argi + 1]].shape
  BY DEF Ahead, Roles, Word
<1>1. argi + 1 \in 1 .. Len(argv) /\ argi + 1 - 1 = argi
  BY WordFacts
<1>2. RolesOf(argv)[argi + 1] = RoleAfter(argv, argi + 1, RolesOf(argv)[argi])
  BY <1>1, WordFacts DEF Roles
<1>3. RolesOf(argv)[argi] = IF stopped THEN "rest" ELSE Word.shape
  BY WordFacts DEF Roles
<1>4. CASE stopped
  BY <1>2, <1>3, <1>4 DEF RoleAfter
<1>5. CASE ~ stopped
  <2>1. Word.shape \in {"-", "--", ":", "word"}
    BY <1>5, WordFacts
  <2> DEFINE k == argi + 1
             before == RolesOf(argv)[argi]
  <2>2. Lex[argv[k - 1]] = Word
    <3>1. argi \in Int
      BY WordFacts
    <3>2. k - 1 = argi
      BY <3>1
    <3>3. QED
      BY <3>2, Zenon DEF Word
  <2>3. before = Word.shape /\ (Word.shape \in {"--", ":"} => ~ Wants(Word))
    BY <1>3, <1>5
  <2>4. RolesOf(argv)[k] = RoleAfter(argv, k, before)
    BY <1>2
  <2> HIDE DEF k, before
  <2>5. before \notin {"stop", "rest"} /\ ~ (before \in {"--", ":"} /\ Wants(Lex[argv[k - 1]]))
    BY <2>1, <2>2, <2>3
  <2>6. RoleAfter(argv, k, before) = Lex[argv[k]].shape
    BY <2>5, KeepsItsShape
  <2>7. QED
    BY <1>5, <2>4, <2>6 DEF k
<1>6. QED
  BY <1>4, <1>5

(* Arguments that are added, none of them of a word before.                *)
LEMMA Joined ==
  ASSUME NEW p \in Seq(ParsedArg), NEW new \in Seq(ParsedArg), NEW a \in Nat,
         \A k \in 1 .. Len(new) : new[k].argi = a
  PROVE  /\ p \o new \in Seq(ParsedArg) /\ Len(new) \in Nat
         /\ Extends(p, p \o new, Len(new), a)
         /\ \A i \in NewOnes(p, Len(new)) : \E k \in 1 .. Len(new) : (p \o new)[i] = new[k]
<1>1. p \o new \in Seq(ParsedArg) /\ Len(p \o new) = Len(p) + Len(new) /\ Len(p) \in Nat /\ Len(new) \in Nat
  OBVIOUS
<1>2. \A i \in 1 .. Len(p) : (p \o new)[i] = p[i]
  OBVIOUS
<1>3. ASSUME NEW i \in NewOnes(p, Len(new))
      PROVE  i - Len(p) \in 1 .. Len(new) /\ (p \o new)[i] = new[i - Len(p)]
  BY <1>1, <1>3 DEF NewOnes
<1>4. QED
  BY <1>1, <1>2, <1>3 DEF Extends

LEMMA ParsedIs ==
  ASSUME argi \in Nat \ {0}, NEW prefix \in {"-", "--", ":"}, NEW name \in STRING, NEW param \in Params
  PROVE  /\ Parsed(prefix, name, param) \in ParsedArg
         /\ Parsed(prefix, name, param).argi = argi
         /\ Parsed(prefix, name, param).arg_type = "OPTION"
         /\ Parsed(prefix, name, param).param = param
BY DEF Parsed, ParsedArg

LEMMA ShortTaken ==
  ASSUME ParserInv, cli_shortopt_parse, Nothing \notin ToSet(Word.names)
  PROVE  ParserInv'
<1> DEFINE names == Word.names
           new == [k \in DOMAIN names |-> Parsed("-", names[k], Nothing)]
<1>1. /\ cli = "parse" /\ argi <= Len(argv) /\ ~ stopped /\ Word.shape = "-" /\ cli' = cli
      /\ argv' = argv /\ stopped' = stopped /\ argi' = argi + 1 /\ pargs' = pargs \o new
  BY DEF cli_shortopt_parse, Parse
<1>2. names \in Seq(STRING)
  BY <1>1, WordFacts, WordsAssumption DEF Word
<1>3. argi \in Nat \ {0} /\ argi \in Nat /\ Len(argv) \in Nat /\ pargs \in Seq(ParsedArg)
  BY <1>1, WordFacts
<1> HIDE DEF names
<1>4. \A k \in 1 .. Len(names) :
        LET p == Parsed("-", names[k], Nothing) IN p \in ParsedArg /\ p.argi = argi /\ p.arg_type = "OPTION"
  <2>1. Nothing \in Params /\ \A k \in 1 .. Len(names) : names[k] \in STRING
    <3> DEFINE S == STRING
    <3>1. names \in Seq(S)
      BY <1>2
    <3> HIDE DEF S
    <3>2. \A k \in 1 .. Len(names) : names[k] \in S
      BY <3>1
    <3>3. Nothing \in Params
      BY WordsAssumption DEF Params
    <3>4. QED
      BY <3>2, <3>3 DEF S
  <2>2. QED
    BY <1>3, <2>1, ParsedIs
<1>5. /\ new \in Seq(ParsedArg) /\ Len(new) = Len(names)
      /\ \A k \in 1 .. Len(new) : new[k].argi = argi /\ new[k].arg_type = "OPTION"
  BY <1>2, <1>4
<1> HIDE DEF new
<1> DEFINE n == Len(new)
<1>6. /\ pargs' \in Seq(ParsedArg) /\ n \in Nat /\ Extends(pargs, pargs', n, argi)
      /\ \A i \in NewOnes(pargs, n) : \E k \in 1 .. n : pargs'[i] = new[k]
  BY <1>1, <1>3, <1>5, Joined
<1>7. n = Len(names)
  BY <1>5
<1> HIDE DEF n
<1>8. Takes(n, 1)
  BY <1>1, <1>3, <1>6, WordFacts DEF Takes
<1>9. Roles[argi] = "-"
  BY <1>1, WordFacts
<1>10. Placed(pargs', argv, argi, argi')
  <2>1. AllBefore(pargs, argi)
    BY <1>1, WordFacts
  <2>2. RolesOf(argv)[argi] = "-" /\ Uses(RolesOf(argv)[argi], Lex[argv[argi]]) = n
    BY <1>7, <1>9 DEF Roles, Uses, Word, names
  <2>3. \A i \in NewOnes(pargs, n) : pargs'[i].arg_type = "OPTION"
    BY <1>5, <1>6 DEF n
  <2>4. ~ (argi + 1 < argi')
    BY <1>1, <1>3
  <2>5. QED
    BY <1>3, <1>6, <2>1, <2>2, <2>3, <2>4, PlacedHere
<1>11. Ahead'
  BY <1>1, AheadAfter
<1>12. QED
  BY <1>6, <1>8, <1>9, <1>10, <1>11, TakesKeeps

(* One more argument, whatever it is.                                      *)
LEMMA OneMore ==
  ASSUME NEW p \in Seq(ParsedArg), NEW new \in ParsedArg
  PROVE  /\ Append(p, new) \in Seq(ParsedArg)
         /\ Extends(p, Append(p, new), 1, new.argi)
         /\ \A i \in NewOnes(p, 1) : Append(p, new)[i] = new
<1>1. Append(p, new) \in Seq(ParsedArg) /\ Len(Append(p, new)) = Len(p) + 1 /\ Len(p) \in Nat
  OBVIOUS
<1>2. \A i \in 1 .. Len(p) : Append(p, new)[i] = p[i]
  OBVIOUS
<1>3. \A i \in NewOnes(p, 1) : i = Len(p) + 1
  BY <1>1 DEF NewOnes
<1>4. Append(p, new)[Len(p) + 1] = new
  OBVIOUS
<1>5. QED
  BY <1>1, <1>2, <1>3, <1>4 DEF Extends

(* What a long option takes from where: its parameter, if any, is in the   *)
(* same word or in the next, which is then used as well.                   *)
LEMMA LongTaken ==
  ASSUME ParserInv, NEW prefix \in {"--", ":"}, Parse(prefix), NEW param \in Params, NEW by \in 1 .. 2,
         by = 2 => Wants(Word) /\ argi < Len(argv) /\ param = argv[argi + 1],
         by = 1 => ~ Wants(Word),
         argv' = argv, stopped' = stopped, argi' = argi + by, cli' = cli,
         pargs' = Append(pargs, Parsed(prefix, Word.name, param))
  PROVE  ParserInv'
<1>1. cli = "parse" /\ argi <= Len(argv) /\ ~ stopped /\ Word.shape = prefix
  BY DEF Parse
<1>2. argi \in Nat \ {0} /\ argi \in Nat /\ Len(argv) \in Nat /\ pargs \in Seq(ParsedArg) /\ AllBefore(pargs, argi)
  BY <1>1, WordFacts
<1> DEFINE new == Parsed(prefix, Word.name, param)
<1>3. new \in ParsedArg /\ new.argi = argi /\ new.arg_type = "OPTION" /\ new.param = param
  <2>1. Word.name \in STRING
    BY <1>1, WordFacts, WordsAssumption DEF Word
  <2>2. QED
    BY <1>2, <2>1, ParsedIs
<1> HIDE DEF new
<1>4. /\ pargs' \in Seq(ParsedArg) /\ Extends(pargs, pargs', 1, argi)
      /\ \A i \in NewOnes(pargs, 1) : pargs'[i] = new
  <2>1. pargs' = Append(pargs, new)
    BY DEF new
  <2>2. QED
    BY <1>2, <1>3, <2>1, OneMore
<1>5. argi + by <= Len(argv) + 1
  BY <1>1, <1>2
<1>6. Takes(1, by)
  BY <1>1, <1>4, <1>5, WordFacts DEF Takes
<1>7. RolesOf(argv)[argi] = prefix /\ prefix \notin {"word", "rest", "stop", "param", "-"}
  BY <1>1, WordFacts DEF Roles
<1>8. by = 2 => RolesOf(argv)[argi + 1] = "param"
  <2>1. SUFFICES ASSUME by = 2 PROVE RolesOf(argv)[argi + 1] = "param"
    OBVIOUS
  <2> DEFINE k == argi + 1
  <2>2. k \in 1 .. Len(argv) /\ k - 1 = argi
    BY <1>2, <2>1
  <2> HIDE DEF k
  <2>3. RolesOf(argv)[k] = RoleAfter(argv, k, RolesOf(argv)[k - 1])
    BY <1>1, <2>2, WordFacts DEF Roles
  <2>4. RolesOf(argv)[k - 1] = prefix /\ Wants(Lex[argv[k - 1]])
    BY <1>7, <2>1, <2>2 DEF Word
  <2>5. RolesOf(argv)[k] = "param"
    BY <1>7, <2>3, <2>4 DEF RoleAfter
  <2>6. QED
    BY <2>5 DEF k
<1>9. Placed(pargs', argv, argi, argi')
  <2>1. Uses(RolesOf(argv)[argi], Lex[argv[argi]]) = 1
    BY <1>7 DEF Uses
  <2>2. \A i \in NewOnes(pargs, 1) : pargs'[i].arg_type = "OPTION" /\ pargs'[i].param = param
    BY <1>3, <1>4
  <2>3. argi + 1 < argi' => param = argv[argi + 1]
    BY <1>2
  <2>4. QED
    BY <1>2, <1>4, <1>7, <2>1, <2>2, <2>3, PlacedHere
<1>10. Ahead'
  <2>1. CASE by = 1
    BY <1>1, <2>1, AheadAfter
  <2>2. CASE by = 2
    <3>1. SUFFICES ASSUME argi + 2 <= Len(argv)
                   PROVE  RolesOf(argv)[argi + 2] = Lex[argv[argi + 2]].shape
      BY <1>1, <2>2 DEF Ahead, Roles, Word
    <3> DEFINE k == argi + 2
    <3>2. k \in 1 .. Len(argv) /\ k - 1 = argi + 1
      BY <1>2, <3>1
    <3> HIDE DEF k
    <3>3. RolesOf(argv)[k] = RoleAfter(argv, k, RolesOf(argv)[k - 1]) /\ RolesOf(argv)[k - 1] = "param"
      BY <1>1, <1>8, <2>2, <3>2, WordFacts DEF Roles
    <3>4. RolesOf(argv)[k] = Lex[argv[k]].shape
      BY <3>3 DEF RoleAfter
    <3>5. QED
      BY <3>4 DEF k
  <2>3. QED
    BY <2>1, <2>2
<1>11. QED
  BY <1>6, <1>7, <1>8, <1>9, <1>10, TakesKeeps DEF Roles

LEMMA PathTaken ==
  ASSUME ParserInv, Positional
  PROVE  ParserInv'
<1> DEFINE new == [arg_type |-> "POSITIONAL", prefix |-> Nothing, value |-> argv[argi],
                   param |-> Nothing, argi |-> argi]
<1>1. /\ cli = "parse" /\ argi <= Len(argv) /\ (stopped \/ Word.shape = "word")
      /\ cli' = cli /\ argv' = argv /\ stopped' = stopped /\ argi' = argi + 1
      /\ pargs' = Append(pargs, new)
  BY DEF Positional
<1>2. argi \in Nat \ {0} /\ argi \in Nat /\ Len(argv) \in Nat /\ pargs \in Seq(ParsedArg) /\ AllBefore(pargs, argi)
  BY <1>1, WordFacts
<1>3. new \in ParsedArg /\ new.argi = argi /\ new.arg_type = "POSITIONAL"
  BY <1>1, <1>2, WordFacts DEF ParsedArg
<1> HIDE DEF new
<1>4. /\ pargs' \in Seq(ParsedArg) /\ Extends(pargs, pargs', 1, argi)
      /\ \A i \in NewOnes(pargs, 1) : pargs'[i] = new
  BY <1>1, <1>2, <1>3, OneMore
<1>5. Takes(1, 1)
  BY <1>1, <1>2, <1>4, WordFacts DEF Takes
<1>6. RolesOf(argv)[argi] \in {"word", "rest"}
  BY <1>1, WordFacts DEF Roles
<1>7. Placed(pargs', argv, argi, argi')
  <2>1. Uses(RolesOf(argv)[argi], Lex[argv[argi]]) = 1
    BY <1>6 DEF Uses
  <2>2. \A i \in NewOnes(pargs, 1) : pargs'[i].arg_type = "POSITIONAL"
    BY <1>3, <1>4
  <2>3. ~ (argi + 1 < argi')
    BY <1>1, <1>2
  <2>4. QED
    BY <1>2, <1>4, <1>6, <2>1, <2>2, <2>3, PlacedHere
<1>8. Ahead'
  BY <1>1, AheadAfter
<1>9. QED
  BY <1>5, <1>6, <1>7, <1>8, TakesKeeps DEF Roles

(* "--" is no argument itself, and all that follow it are paths.           *)
LEMMA StopTaken ==
  ASSUME ParserInv, OptStopper
  PROVE  ParserInv'
<1>1. /\ cli = "parse" /\ argi <= Len(argv) /\ ~ stopped /\ Word.shape = "stop"
      /\ cli' = cli /\ argv' = argv /\ stopped' = TRUE /\ argi' = argi + 1 /\ pargs' = pargs
  BY DEF OptStopper, Parse
<1>2. argi \in Nat /\ Len(argv) \in Nat /\ pargs \in Seq(ParsedArg) /\ AllBefore(pargs, argi)
  BY <1>1, WordFacts
<1>3. Len(pargs) \in Nat /\ NewOnes(pargs, 0) = {} /\ Extends(pargs, pargs', 0, argi)
  BY <1>1, <1>2 DEF Extends, NewOnes
<1>4. Takes(0, 1)
  BY <1>1, <1>2, <1>3 DEF Takes
<1>5. RolesOf(argv)[argi] = "stop"
  BY <1>1, WordFacts DEF Roles
<1>6. Placed(pargs', argv, argi, argi')
  <2>1. Uses(RolesOf(argv)[argi], Lex[argv[argi]]) = 0
    BY <1>5 DEF Uses
  <2>2. pargs' \in Seq(ParsedArg)
    BY <1>1, <1>2
  <2>3. QED
    BY <1>2, <1>3, <1>5, <2>1, <2>2, PlacedHere
<1>7. Ahead'
  <2>1. SUFFICES ASSUME argi + 1 <= Len(argv)
                 PROVE  RolesOf(argv)[argi + 1] = "rest"
    BY <1>1 DEF Ahead, Roles
  <2> DEFINE k == argi + 1
  <2>2. k \in 1 .. Len(argv) /\ k - 1 = argi
    BY <1>2, <2>1
  <2> HIDE DEF k
  <2>3. RolesOf(argv)[k] = RoleAfter(argv, k, RolesOf(argv)[k - 1]) /\ RolesOf(argv)[k - 1] = "stop"
    BY <1>1, <1>5, <2>2, WordFacts DEF Roles
  <2>4. RolesOf(argv)[k] = "rest"
    BY <2>3 DEF RoleAfter
  <2>5. QED
    BY <2>4 DEF k
<1>8. QED
  BY <1>4, <1>5, <1>6, <1>7, TakesKeeps DEF Roles

(* Whatever leaves the parser as it is.                                    *)
LEMMA NothingTaken ==
  ASSUME ParserInv, UNCHANGED parsing,
         cli' \in {"options", "search", "playing"} => argi = Len(argv) + 1
  PROVE  ParserInv'
BY DEF ParserInv, ParserType, WordsBefore, AllBefore, InOrder, AllPlaced, Ahead, Roles, Word, parsing

LEMMA LongStep ==
  ASSUME ParserInv, NEW prefix \in {"--", ":"}, cli_longopt_parse(prefix)
  PROVE  ParserInv'
<1> DEFINE takes == Word.name \in lopts_w_args
           defer_param == takes /\ Word.eq = Nothing
<1>1. Parse(prefix) /\ argv' = argv /\ stopped' = stopped
  BY DEF cli_longopt_parse
<1>2. Word.shape = prefix /\ argi <= Len(argv) /\ cli = "parse"
  BY <1>1 DEF Parse
<1>3. Word.eq \in Params
  BY <1>2, WordFacts, WordsAssumption DEF Word, Params
<1>4. defer_param <=> Wants(Word)
  BY <1>2 DEF Wants
<1>5. CASE defer_param /\ argi < Len(argv)
  <2>1. pargs' = Append(pargs, Parsed(prefix, Word.name, argv[argi + 1])) /\ argi' = argi + 2 /\ cli' = cli
    BY <1>5 DEF cli_longopt_parse
  <2>2. argv[argi + 1] \in Params
    <3>1. argv \in Seq(DOMAIN Lex) /\ argi + 1 \in 1 .. Len(argv)
      BY <1>2, <1>5, WordFacts DEF ParserInv, ParserType
    <3>2. QED
      BY <3>1, WordsAssumption DEF Params
  <2>3. 2 \in 1 .. 2
    OBVIOUS
  <2>4. QED
    BY <1>1, <1>4, <1>5, <2>1, <2>2, <2>3, LongTaken
<1>6. CASE /\ ~ (defer_param /\ argi < Len(argv)) /\ ~ defer_param
           /\ takes = (Word.eq # Nothing) /\ Word.eq # ""
  <2>1. pargs' = Append(pargs, Parsed(prefix, Word.name, Word.eq)) /\ argi' = argi + 1 /\ cli' = cli
    BY <1>6 DEF cli_longopt_parse
  <2>2. 1 \in 1 .. 2 /\ 1 # 2
    OBVIOUS
  <2>3. ~ Wants(Word)
    BY <1>4, <1>6, Zenon
  <2> HIDE DEF takes, defer_param
  <2>4. QED
    BY <1>1, <1>3, <2>1, <2>2, <2>3, LongTaken
<1>7. CASE /\ ~ (defer_param /\ argi < Len(argv))
           /\ ~ (~ defer_param /\ takes = (Word.eq # Nothing) /\ Word.eq # "")
  <2>1. cli' = "error" /\ UNCHANGED parsing
    BY <1>7 DEF cli_longopt_parse, parsing
  <2>2. QED
    BY <2>1, NothingTaken
<1>8. QED
  BY <1>5, <1>6, <1>7

LEMMA ParserStep ==
  ASSUME ParserInv, [CLINext]_cliVars
  PROVE  ParserInv'
<1>1. CASE cli_shortopt_parse
  <2>1. CASE Nothing \in ToSet(Word.names)
    <3>1. cli' = "error" /\ UNCHANGED parsing
      BY <1>1, <2>1 DEF cli_shortopt_parse, parsing
    <3>2. QED
      BY <3>1, NothingTaken
  <2>2. CASE Nothing \notin ToSet(Word.names)
    BY <1>1, <2>2, ShortTaken
  <2>3. QED
    BY <2>1, <2>2
<1>2. CASE cli_longopt_parse("--") \/ cli_longopt_parse(":")
  BY <1>2, LongStep
<1>3. CASE OptStopper
  BY <1>3, StopTaken
<1>4. CASE Positional
  BY <1>4, PathTaken
<1>5. CASE ParseEnds
  <2>1. argi = Len(argv) + 1 /\ UNCHANGED parsing
    BY <1>5 DEF ParseEnds, ParserInv, ParserType
  <2>2. QED
    BY <2>1, NothingTaken
<1>6. CASE \/ MediaPath \/ ArgExits \/ cli_arg_global \/ cli_arg_local \/ OptionsEnd
           \/ ReadPath \/ resolve_cli_path \/ SearchEnds \/ UNCHANGED cliVars
  <2>1. UNCHANGED parsing
    BY <1>6 DEF MediaPath, ArgExits, cli_arg_global, cli_arg_local, OptionsEnd,
                ReadPath, resolve_cli_path, SearchEnds, cliVars
  <2>2. cli \in {"options", "search", "playing"} \/ cli' = cli
    BY <1>6 DEF MediaPath, ArgExits, cli_arg_global, cli_arg_local, OptionsEnd, Interpret,
                ReadPath, resolve_cli_path, SearchEnds, Searching, cliVars
  <2>3. cli' \in {"options", "search", "playing"} => argi = Len(argv) + 1
    BY <2>2 DEF ParserInv
  <2>4. QED
    BY <2>1, <2>3, NothingTaken
<1>7. QED
  BY <1>1, <1>2, <1>3, <1>4, <1>5, <1>6 DEF CLINext

LEMMA ParserStart == CLIInit => ParserInv
<1> SUFFICES ASSUME CLIInit PROVE ParserInv
  OBVIOUS
<1>1. /\ argv \in Seq(DOMAIN Lex) /\ argi = 1 /\ stopped = FALSE /\ pargs = <<>>
      /\ cli \in {"exited", "parse"}
  BY WordsAssumption DEF CLIInit
<1>2. ParserType /\ argi <= Len(argv) + 1
  <2>1. Len(argv) \in Nat /\ <<>> \in Seq(ParsedArg)
    BY <1>1
  <2>2. argi \in Nat \ {0} /\ argi <= Len(argv) + 1
    BY <1>1, <2>1
  <2>3. stopped \in BOOLEAN
    BY <1>1, Zenon
  <2>4. pargs \in Seq(ParsedArg)
    BY <1>1, <2>1, Zenon
  <2>5. QED
    BY <1>1, <2>2, <2>3, <2>4, Zenon DEF ParserType
<1>3. WordsBefore /\ InOrder /\ AllPlaced
  BY <1>1 DEF WordsBefore, AllBefore, InOrder, AllPlaced
<1>4. Ahead
  <2>1. SUFFICES ASSUME 1 <= Len(argv) PROVE RolesOf(argv)[1] = Lex[argv[1]].shape
    BY <1>1 DEF Ahead, Roles, Word
  <2>2. Len(argv) \in Nat /\ 1 \in 1 .. Len(argv) /\ 1 - 1 = 0
    BY <1>1, <2>1
  <2>3. RolesOf(argv)[1] = RoleAfter(argv, 1, "word")
    BY <2>2, RoleIs
  <2>4. QED
    BY <2>3, KeepsItsShape
<1>5. QED
  BY <1>1, <1>2, <1>3, <1>4 DEF ParserInv

(* Of every command line that the parser accepts, each word is used once   *)
(* and in order, however many there are (cli_iter.cpp 32-140).             *)
THEOREM EveryWordOnce == CLISpec => []WordsUsedOnce
BY ParserStart, ParserStep, ParserInvImplies, PTL DEF CLISpec
-----------------------------------------------------------------------------
(* Of the parsed arguments p: the paths, the options for all of them, and  *)
(* those for the path at k; which of S set o, and to what.                 *)
PathsOf(p) == { k \in DOMAIN p : p[k].arg_type = "POSITIONAL" }
GlobalsOf(p) == { k \in DOMAIN p : p[k].prefix \in {"-", "--"} }
LocalsOf(p, k) == { i \in DOMAIN p : p[i].prefix = ":" /\ i > k /\ \A q \in PathsOf(p) : q > k => i < q }
SetsIt(p, S, o, k) == k \in S /\ p[k].arg_type = "OPTION" /\ Sets(p[k]) = o
GivenIn(p, S, o) == { k \in S : SetsIt(p, S, o, k) }
LastIn(p, S, o) == Value(p[Max(GivenIn(p, S, o))])
Upto(S, n) == { k \in S : k <= n }
Default(o) == IF o = "num_reads" THEN 1 ELSE FALSE
Options == SearchNames \ {"no_probe"}

(* What has been made of the first n arguments: of path j, at pos[j], and  *)
(* of all of them.                                                         *)
GlobalIs(p, S, o) == IF GivenIn(p, S, o) = {} THEN Default(o) ELSE LastIn(p, S, o)
LocalIs(p, S, o) == IF GivenIn(p, S, o) = {} THEN {} ELSE {LastIn(p, S, o)}
GlobalsRead(p, n, glob) ==
  \A o \in Options : glob[o] = GlobalIs(p, Upto(GlobalsOf(p), n), o)
LocalsRead(p, n, k, local) ==
  \A o \in Options : local[o] = LocalIs(p, Upto(LocalsOf(p, k), n), o)
PathsRead(p, n, pths, pos) ==
  /\ pos \in Seq(Nat) /\ Len(pths) = Len(pos)
  /\ \A j \in 1 .. Len(pos) : pos[j] \in PathsOf(p) /\ pos[j] <= n
  /\ \A k \in PathsOf(p) : k <= n => \E j \in 1 .. Len(pos) : pos[j] = k
  /\ \A i, j \in 1 .. Len(pos) : i < j => pos[i] < pos[j]
  /\ \A j \in 1 .. Len(pos) : pths[j].path = PathOf[p[pos[j]].value]
  /\ \A j \in 1 .. Len(pos) : LocalsRead(p, n, pos[j], pths[j].srch_opts)

(* What the argument at k does to the options for all paths, and to those  *)
(* for the path at "at".                                                   *)
GlobalSet(p, k, glob, glob2) ==
  \A o \in Options : glob2[o] = IF SetsIt(p, GlobalsOf(p), o, k) THEN Value(p[k]) ELSE glob[o]
LocalSet(p, k, at, local, local2) ==
  \A o \in Options : local2[o] = IF SetsIt(p, LocalsOf(p, at), o, k) THEN {Value(p[k])} ELSE local[o]

(* The greatest of a set of numbers.                                       *)
LEMMA MaxIs ==
  ASSUME NEW S, S \subseteq Nat, NEW k \in S, \A j \in S : j <= k
  PROVE  Max(S) = k
<1>1. \A y \in S : k >= y
  OBVIOUS
<1>2. \A x \in S : (\A y \in S : x >= y) => x = k
  OBVIOUS
<1>3. QED
  BY <1>1, <1>2 DEF Max

(* The argument at k, after those before it: it is the last that sets what *)
(* it sets, and changes nothing else.                                      *)
LEMMA SetsItsOwn ==
  ASSUME NEW p, NEW S \in SUBSET Nat, NEW k, NEW o, SetsIt(p, S, o, k)
  PROVE  /\ GivenIn(p, Upto(S, k), o) # {}
         /\ LastIn(p, Upto(S, k), o) = Value(p[k])
<1> DEFINE given == GivenIn(p, Upto(S, k), o)
<1>1. k \in S
  BY Zenon DEF SetsIt
<1>2. k \in given
  <2>1. k <= k
    BY <1>1
  <2>2. k \in Upto(S, k)
    BY <1>1, <2>1, Zenon DEF Upto
  <2>3. QED
    BY <2>2, Zenon DEF GivenIn, SetsIt
<1>3. given \subseteq Nat /\ \A j \in given : j <= k
  <2>1. \A j \in given : j \in S /\ j <= k
    BY Zenon DEF GivenIn, Upto
  <2> HIDE DEF given
  <2>2. \A j \in given : j \in Nat
    BY <2>1
  <2>3. QED
    BY <2>1, <2>2
<1> HIDE DEF given
<1>4. Max(given) = k
  BY <1>2, <1>3, MaxIs
<1>5. QED
  BY <1>2, <1>4 DEF LastIn, given

LEMMA SetsNoOther ==
  ASSUME NEW p, NEW S \in SUBSET Nat, NEW k \in Nat, NEW o, ~ SetsIt(p, S, o, k)
  PROVE  GivenIn(p, Upto(S, k), o) = GivenIn(p, Upto(S, k - 1), o)
<1>1. ASSUME NEW j, j \in S
      PROVE  j <= k <=> j <= k - 1 \/ j = k
  BY <1>1
<1>2. QED
  BY <1>1 DEF GivenIn, Upto, SetsIt

(* An option after the argument at k, for all paths and for one.           *)
LEMMA GlobalAfter ==
  ASSUME NEW p, NEW S \in SUBSET Nat, NEW k \in Nat, NEW o
  PROVE  GlobalIs(p, Upto(S, k), o) =
           IF SetsIt(p, S, o, k) THEN Value(p[k]) ELSE GlobalIs(p, Upto(S, k - 1), o)
<1>1. CASE SetsIt(p, S, o, k)
  BY <1>1, SetsItsOwn DEF GlobalIs
<1>2. CASE ~ SetsIt(p, S, o, k)
  <2>1. GivenIn(p, Upto(S, k), o) = GivenIn(p, Upto(S, k - 1), o)
    BY <1>2, SetsNoOther
  <2>2. QED
    BY <1>2, <2>1, Zenon DEF GlobalIs, LastIn
<1>3. QED
  BY <1>1, <1>2

LEMMA LocalAfter ==
  ASSUME NEW p, NEW S \in SUBSET Nat, NEW k \in Nat, NEW o
  PROVE  LocalIs(p, Upto(S, k), o) =
           IF SetsIt(p, S, o, k) THEN {Value(p[k])} ELSE LocalIs(p, Upto(S, k - 1), o)
<1>1. CASE SetsIt(p, S, o, k)
  BY <1>1, SetsItsOwn DEF LocalIs
<1>2. CASE ~ SetsIt(p, S, o, k)
  <2>1. GivenIn(p, Upto(S, k), o) = GivenIn(p, Upto(S, k - 1), o)
    BY <1>2, SetsNoOther
  <2>2. QED
    BY <1>2, <2>1, Zenon DEF LocalIs, LastIn
<1>3. QED
  BY <1>1, <1>2

(* What the arguments of each kind look like.                              *)
LEMMA ArgFacts ==
  ASSUME NEW p \in Seq(ParsedArg)
  PROVE  /\ DOMAIN p = 1 .. Len(p) /\ Len(p) \in Nat
         /\ GlobalsOf(p) \subseteq Nat /\ \A k : LocalsOf(p, k) \subseteq Nat
         /\ PathsOf(p) \subseteq Nat
         /\ \A k \in DOMAIN p : 
              /\ p[k] \in ParsedArg
              /\ p[k].arg_type = "POSITIONAL" => p[k].prefix = Nothing /\ p[k].value \in DOMAIN Lex
              /\ p[k].arg_type = "OPTION" <=> p[k].prefix \in {"-", "--", ":"}
              /\ p[k].arg_type \in {"OPTION", "POSITIONAL"}
<1>1. DOMAIN p = 1 .. Len(p) /\ Len(p) \in Nat /\ DOMAIN p \subseteq Nat /\ \A k \in DOMAIN p : p[k] \in ParsedArg
  OBVIOUS
<1>2. \A a \in ParsedArg : 
              /\ a.arg_type = "POSITIONAL" => a.prefix = Nothing /\ a.value \in DOMAIN Lex
              /\ a.arg_type = "OPTION" <=> a.prefix \in {"-", "--", ":"}
              /\ a.arg_type \in {"OPTION", "POSITIONAL"}
  BY DEF ParsedArg, Nothing
<1>3. QED
  BY <1>1, <1>2 DEF GlobalsOf, LocalsOf, PathsOf

(* What a global option does to the options for all paths, and what any    *)
(* other argument does to them.                                            *)
LEMMA GlobalsGrow ==
  ASSUME NEW p \in Seq(ParsedArg), NEW k \in DOMAIN p, NEW glob, NEW glob2,
         GlobalsRead(p, k - 1, glob), GlobalSet(p, k, glob, glob2)
  PROVE  GlobalsRead(p, k, glob2)
<1> DEFINE S == GlobalsOf(p)
<1>1. S \in SUBSET Nat /\ k \in Nat
  BY ArgFacts
<1>2. ASSUME NEW o \in Options
      PROVE  glob2[o] = GlobalIs(p, Upto(S, k), o)
  <2>1. glob[o] = GlobalIs(p, Upto(S, k - 1), o)
    BY DEF GlobalsRead
  <2>2. glob2[o] = IF SetsIt(p, S, o, k) THEN Value(p[k]) ELSE glob[o]
    BY DEF GlobalSet
  <2> HIDE DEF S
  <2>3. GlobalIs(p, Upto(S, k), o) =
          IF SetsIt(p, S, o, k) THEN Value(p[k]) ELSE GlobalIs(p, Upto(S, k - 1), o)
    BY <1>1, GlobalAfter
  <2>4. QED
    BY <2>1, <2>2, <2>3
<1>3. QED
  BY <1>2 DEF GlobalsRead

(* And to the options for one path.                                        *)
LEMMA LocalsGrow ==
  ASSUME NEW p \in Seq(ParsedArg), NEW k \in DOMAIN p, NEW at, NEW local, NEW local2,
         LocalsRead(p, k - 1, at, local),
         LocalSet(p, k, at, local, local2)
  PROVE  LocalsRead(p, k, at, local2)
<1> DEFINE S == LocalsOf(p, at)
<1>1. S \in SUBSET Nat /\ k \in Nat
  BY ArgFacts
<1>2. ASSUME NEW o \in Options
      PROVE  local2[o] = LocalIs(p, Upto(S, k), o)
  <2>1. local[o] = LocalIs(p, Upto(S, k - 1), o)
    BY DEF LocalsRead
  <2>2. local2[o] = IF SetsIt(p, S, o, k) THEN {Value(p[k])} ELSE local[o]
    BY DEF LocalSet
  <2> HIDE DEF S
  <2>3. LocalIs(p, Upto(S, k), o) =
          IF SetsIt(p, S, o, k) THEN {Value(p[k])} ELSE LocalIs(p, Upto(S, k - 1), o)
    BY <1>1, LocalAfter
  <2>4. QED
    BY <2>1, <2>2, <2>3
<1>3. QED
  BY <1>2 DEF LocalsRead

(* A path is a new path, for which nothing is set yet.                     *)
LEMMA PathsGrow ==
  ASSUME NEW p \in Seq(ParsedArg), NEW k \in PathsOf(p), NEW E, NEW pths \in Seq(E), NEW pos, PathsRead(p, k - 1, pths, pos),
         NEW e \in E, e.path = PathOf[p[k].value], \A o \in Options : e.srch_opts[o] = {}
  PROVE  PathsRead(p, k, Append(pths, e), Append(pos, k))
<1> DEFINE pos2 == Append(pos, k)
           pths2 == Append(pths, e)
           n == Len(pos)
<1>1. k \in Nat /\ k \in DOMAIN p /\ p[k].arg_type = "POSITIONAL" /\ p[k].prefix = Nothing
  BY ArgFacts DEF PathsOf
<1>2. pos \in Seq(Nat) /\ Len(pths) = n /\ n \in Nat
  BY DEF PathsRead
<1>3. /\ pos2 \in Seq(Nat) /\ Len(pos2) = n + 1 /\ Len(pths2) = n + 1
      /\ pos2[n + 1] = k /\ pths2[n + 1] = e
      /\ \A j \in 1 .. n : pos2[j] = pos[j] /\ pths2[j] = pths[j]
  BY <1>1, <1>2
<1>4. \A j \in 1 .. n + 1 : j \in 1 .. n \/ j = n + 1
  BY <1>2
<1> HIDE DEF pos2, pths2
<1>5. ASSUME NEW j \in 1 .. n + 1
      PROVE  /\ pos2[j] \in PathsOf(p) /\ pos2[j] <= k
             /\ pths2[j].path = PathOf[p[pos2[j]].value]
  <2>1. CASE j = n + 1
    BY <1>1, <1>3, <2>1
  <2>2. CASE j \in 1 .. n
    <3>1. pos[j] \in PathsOf(p) /\ pos[j] <= k - 1 /\ pths[j].path = PathOf[p[pos[j]].value]
      BY <2>2 DEF PathsRead
    <3>2. pos[j] \in Nat
      BY <1>2, <2>2
    <3>3. QED
      BY <1>1, <1>3, <2>2, <3>1, <3>2
  <2>3. QED
    BY <1>4, <2>1, <2>2
<1>6. ASSUME NEW i \in PathsOf(p), i <= k
      PROVE  \E j \in 1 .. n + 1 : pos2[j] = i
  <2>1. CASE i = k
    BY <1>2, <1>3, <2>1
  <2>2. CASE i # k
    <3>1. i <= k - 1
      BY <1>1, <1>6, <2>2, ArgFacts
    <3>2. PICK j \in 1 .. n : pos[j] = i
      BY <3>1 DEF PathsRead
    <3>3. QED
      BY <1>2, <1>3, <3>2
  <2>3. QED
    BY <2>1, <2>2
<1>7. ASSUME NEW i \in 1 .. n + 1, NEW j \in 1 .. n + 1, i < j
      PROVE  pos2[i] < pos2[j]
  <2>1. i \in 1 .. n /\ (j \in 1 .. n \/ j = n + 1)
    BY <1>2, <1>7
  <2>2. pos[i] \in Nat /\ pos[i] <= k - 1
    BY <1>2, <2>1, ArgFacts DEF PathsRead
  <2>3. QED
    BY <1>1, <1>3, <1>7, <2>1, <2>2 DEF PathsRead
<1>8. ASSUME NEW j \in 1 .. n + 1
      PROVE  LocalsRead(p, k, pos2[j], pths2[j].srch_opts)
  <2>1. CASE j \in 1 .. n
    <3>1. LocalsRead(p, k - 1, pos[j], pths[j].srch_opts)
      BY <2>1 DEF PathsRead
    <3>2. LocalSet(p, k, pos[j], pths[j].srch_opts, pths[j].srch_opts)
      BY <1>1 DEF SetsIt, LocalSet
    <3>3. QED
      BY <1>1, <1>3, <2>1, <3>1, <3>2, LocalsGrow
  <2>2. CASE j = n + 1
    <3>1. Upto(LocalsOf(p, k), k) = {}
      BY <1>1, ArgFacts DEF Upto, LocalsOf
    <3>2. QED
      BY <1>3, <2>2, <3>1 DEF LocalsRead, LocalIs, GivenIn
  <2>3. QED
    BY <1>4, <2>1, <2>2
<1>9. QED
  BY <1>3, <1>5, <1>6, <1>7, <1>8 DEF PathsRead, pos2, pths2

(* Any other argument changes at most what is set for the paths.           *)
LEMMA PathsStay ==
  ASSUME NEW p \in Seq(ParsedArg), NEW k \in DOMAIN p, k \notin PathsOf(p),
         NEW pths, NEW pths2, NEW pos, PathsRead(p, k - 1, pths, pos), Len(pths2) = Len(pths),
         \A j \in 1 .. Len(pos) :
           /\ pths2[j].path = pths[j].path
           /\ LocalSet(p, k, pos[j], pths[j].srch_opts, pths2[j].srch_opts)
  PROVE  PathsRead(p, k, pths2, pos)
<1>1. k \in Nat /\ \A i \in PathsOf(p) : i \in Nat /\ (i <= k <=> i <= k - 1)
  <2>1. \A i \in PathsOf(p) : i \in Nat /\ i # k
    BY ArgFacts
  <2>2. QED
    BY <2>1, ArgFacts
<1>2. ASSUME NEW j \in 1 .. Len(pos)
      PROVE  LocalsRead(p, k, pos[j], pths2[j].srch_opts)
  <2>1. LocalsRead(p, k - 1, pos[j], pths[j].srch_opts)
    BY DEF PathsRead
  <2>2. QED
    BY <2>1, LocalsGrow
<1>3. QED
  BY <1>1, <1>2 DEF PathsRead

(* Of the paths so far, a local option is for the last.                    *)
LEMMA LocalIsForLast ==
  ASSUME NEW p \in Seq(ParsedArg), NEW k \in DOMAIN p, p[k].prefix = ":",
         NEW pths, NEW pos, PathsRead(p, k - 1, pths, pos), NEW j \in 1 .. Len(pos)
  PROVE  k \in LocalsOf(p, pos[j]) <=> j = Len(pos)
<1>1. k \in Nat /\ k \notin PathsOf(p)
  BY ArgFacts DEF PathsOf, Nothing
<1>2. /\ pos \in Seq(Nat) /\ Len(pos) \in Nat
      /\ \A i \in 1 .. Len(pos) : pos[i] \in PathsOf(p) /\ pos[i] \in Nat /\ pos[i] < k
  <2>1. \A i \in 1 .. Len(pos) : pos[i] \in PathsOf(p) /\ pos[i] <= k - 1
    BY DEF PathsRead
  <2>2. QED
    BY <1>1, <2>1, ArgFacts DEF PathsRead
<1> DEFINE n == Len(pos)
<1>3. CASE j = n
  <2>1. ASSUME NEW q \in PathsOf(p), q > pos[n]
        PROVE  k < q
    <3>1. q \in Nat /\ q # k
      BY <1>1, ArgFacts
    <3>2. SUFFICES ASSUME q <= k - 1 PROVE FALSE
      BY <1>1, <3>1
    <3>3. PICK i \in 1 .. n : pos[i] = q
      BY <3>2 DEF PathsRead
    <3>4. i = n \/ i < n
      BY <1>2
    <3>5. QED
      BY <1>2, <1>3, <2>1, <3>3, <3>4 DEF PathsRead
  <2>2. QED
    BY <1>2, <1>3, <2>1 DEF LocalsOf
<1>4. CASE j # n
  <2>1. j < n /\ n \in 1 .. n
    BY <1>2, <1>4
  <2>2. pos[j] < pos[n] /\ pos[n] < k /\ pos[n] \in PathsOf(p) /\ pos[n] \in Nat
    BY <1>2, <2>1 DEF PathsRead
  <2>3. ~ (k < pos[n])
    BY <1>1, <2>2
  <2>4. QED
    BY <1>4, <2>2, <2>3 DEF LocalsOf
<1>5. QED
  BY <1>3, <1>4

Values == Int \union BOOLEAN
PathRead ==
  { e \in [path : DOMAIN Places, srch_opts : [SearchNames -> SUBSET Values]] :
      e.srch_opts["num_reads"] \in SUBSET Int }
OptionsType ==
  /\ srch_opts \in [SearchNames -> Values] /\ srch_opts["num_reads"] \in Int
  /\ paths \in Seq(PathRead)
OptionsRead(p, n, glob, pths) == GlobalsRead(p, n, glob) /\ \E pos : PathsRead(p, n, pths, pos)
OptionsInv ==
  /\ OptionsType
  /\ cli = "parse" => next = 1 /\ paths = <<>> /\ \A o \in Options : srch_opts[o] = Default(o)
  /\ cli = "options" => next \in 1 .. Len(pargs) + 1 /\ (~argerrs => OptionsRead(pargs, next - 1, srch_opts, paths))
  /\ cli \in {"search", "playing"} => OptionsRead(pargs, Len(pargs), srch_opts, paths)

LEMMA ArgIs ==
  ASSUME pargs \in Seq(ParsedArg), Interpret, next \in 1 .. Len(pargs) + 1
  PROVE  /\ next \in DOMAIN pargs /\ next \in Nat /\ (next + 1) - 1 = next /\ next + 1 \in 1 .. Len(pargs) + 1
         /\ arg \in ParsedArg
BY DEF Interpret, arg

(* What an option is set to.                                               *)
LEMMA ValueIs ==
  ASSUME NEW a \in ParsedArg, a.arg_type = "OPTION"
  PROVE  Value(a) \in Values /\ (Sets(a) = "num_reads" => Value(a) \in Int)
<1>1. a.param \in DOMAIN Int32
  BY DEF ParsedArg, Params
<1>2. CASE a.value = "num_reads"
  <2>1. Int32[a.param] \in Int
    BY <1>1, WordsAssumption
  <2>2. Value(a) = Int32[a.param] + 1
    BY <1>2 DEF Value
  <2>3. QED
    BY <2>1, <2>2 DEF Values
<1>3. CASE a.value # "num_reads"
  <2>1. Value(a) \in BOOLEAN /\ Sets(a) # "num_reads"
    BY <1>3 DEF Value, Sets
  <2>2. QED
    BY <2>1, Zenon DEF Values
<1>4. QED
  BY <1>2, <1>3

Put(s, n, e) == [s EXCEPT ![n] = e]
PutIn(r, x, v) == [r EXCEPT !.srch_opts[x] = v]
(* Lists and records with one place changed.                               *)
LEMMA PutIs ==
  ASSUME NEW s \in Seq(PathRead), NEW n \in 1 .. Len(s), NEW e \in PathRead
  PROVE  /\ Put(s, n, e) \in Seq(PathRead) /\ Len(Put(s, n, e)) = Len(s) /\ Put(s, n, e)[n] = e
         /\ \A j \in 1 .. Len(s) : j # n => Put(s, n, e)[j] = s[j]
BY DEF Put

LEMMA PutInIs ==
  ASSUME NEW r, r = [path |-> r.path, srch_opts |-> r.srch_opts], NEW x, NEW v
  PROVE  PutIn(r, x, v) = [path |-> r.path, srch_opts |-> Put(r.srch_opts, x, v)]
BY DEF Put, PutIn

(* The settings that are read have their types.                            *)
LEMMA PathTyped ==
  ASSUME OptionsType, pargs \in Seq(ParsedArg), next \in 1 .. Len(pargs) + 1, MediaPath
  PROVE  OptionsType'
<1> DEFINE e == [path |-> PathOf[arg.value], srch_opts |-> [o \in SearchNames |-> {}]]
<1>1. arg.value \in DOMAIN Lex
  BY ArgIs, ArgFacts DEF MediaPath, arg
<1>2. PathOf[arg.value] \in DOMAIN Places
  BY <1>1, PlacesAssumption
<1>3. [o \in SearchNames |-> {}] \in [SearchNames -> SUBSET Values] /\ "num_reads" \in SearchNames
  BY DEF SearchNames
<1>4. e \in PathRead
  BY <1>2, <1>3 DEF PathRead
<1>5. paths' = Append(paths, e) /\ srch_opts' = srch_opts
  BY DEF MediaPath
<1> HIDE DEF e
<1>6. paths' \in Seq(PathRead)
  BY <1>4, <1>5 DEF OptionsType
<1>7. QED
  BY <1>5, <1>6 DEF OptionsType

LEMMA GlobalTyped ==
  ASSUME OptionsType, pargs \in Seq(ParsedArg), next \in 1 .. Len(pargs) + 1, cli_arg_global
  PROVE  OptionsType'
<1> DEFINE a == arg
<1>1. paths' = paths /\ (srch_opts' = srch_opts \/ srch_opts' = [srch_opts EXCEPT ![Sets(a)] = Value(a)])
  BY DEF cli_arg_global
<1>2. Value(a) \in Values /\ (Sets(a) = "num_reads" => Value(a) \in Int)
  BY ArgIs, ValueIs DEF cli_arg_global
<1> HIDE DEF a
<1>3. [srch_opts EXCEPT ![Sets(a)] = Value(a)] \in [SearchNames -> Values]
  BY <1>2 DEF OptionsType
<1>4. [srch_opts EXCEPT ![Sets(a)] = Value(a)]["num_reads"] \in Int
  BY <1>2 DEF OptionsType, SearchNames
<1>5. QED
  BY <1>1, <1>3, <1>4 DEF OptionsType

(* Only the last path is changed.                                          *)
LEMMA LocalTyped ==
  ASSUME OptionsType, NEW a \in ParsedArg, a.arg_type = "OPTION", paths # <<>>, NEW pths,
         pths = Put(paths, Len(paths), PutIn(paths[Len(paths)], Sets(a), {Value(a)}))
  PROVE  /\ pths \in Seq(PathRead) /\ Len(pths) = Len(paths)
         /\ \A j \in 1 .. Len(paths) :
              /\ pths[j].path = paths[j].path
              /\ j # Len(paths) => pths[j] = paths[j]
         /\ \A o \in SearchNames :
              pths[Len(paths)].srch_opts[o] =
                IF Sets(a) = o THEN {Value(a)} ELSE paths[Len(paths)].srch_opts[o]
<1> DEFINE n == Len(paths)
           old == paths[n]
           e == PutIn(old, Sets(a), {Value(a)})
           local == Put(old.srch_opts, Sets(a), {Value(a)})
<1>1. paths \in Seq(PathRead) /\ n \in 1 .. Len(paths) /\ n \in Nat
  BY DEF OptionsType
<1>2. old \in PathRead
  BY <1>1
<1>3. pths = Put(paths, n, e)
  OBVIOUS
<1>4. n = Len(paths)
  OBVIOUS
<1> HIDE DEF n, old
<1>5. /\ old \in [path : DOMAIN Places, srch_opts : [SearchNames -> SUBSET Values]]
      /\ old.path \in DOMAIN Places /\ old.srch_opts \in [SearchNames -> SUBSET Values]
      /\ old.srch_opts["num_reads"] \in SUBSET Int
  BY <1>2 DEF PathRead
<1>6. Value(a) \in Values /\ (Sets(a) = "num_reads" => Value(a) \in Int)
  BY ValueIs
<1>7. local \in [SearchNames -> SUBSET Values] /\ local["num_reads"] \in SUBSET Int
      /\ \A o \in SearchNames : local[o] = IF Sets(a) = o THEN {Value(a)} ELSE old.srch_opts[o]
  BY <1>5, <1>6 DEF SearchNames, Put
<1>8. e = [path |-> old.path, srch_opts |-> local]
  <2>1. old = [path |-> old.path, srch_opts |-> old.srch_opts]
    BY <1>5
  <2>2. QED
    BY <2>1, PutInIs
<1> HIDE DEF local, e
<1>9. e \in PathRead /\ e.path = old.path /\ e.srch_opts = local
  BY <1>5, <1>7, <1>8 DEF PathRead
<1>10. pths \in Seq(PathRead) /\ Len(pths) = Len(paths) /\ pths[n] = e
       /\ \A j \in 1 .. Len(paths) : j # n => pths[j] = paths[j]
  <2>1. paths \in Seq(PathRead) /\ n \in 1 .. Len(paths) /\ e \in PathRead
    BY <1>1, <1>9
  <2>2. /\ Put(paths, n, e) \in Seq(PathRead) /\ Len(Put(paths, n, e)) = Len(paths) /\ Put(paths, n, e)[n] = e
        /\ \A j \in 1 .. Len(paths) : j # n => Put(paths, n, e)[j] = paths[j]
    BY <2>1, PutIs, Zenon
  <2>3. QED
    BY <1>3, <2>2, Zenon
<1>11. QED
  BY <1>4, <1>7, <1>9, <1>10 DEF old

(* Each argument adds itself to what has been read.                        *)
LEMMA PathRuns ==
  ASSUME OptionsType, pargs \in Seq(ParsedArg), next \in 1 .. Len(pargs) + 1, OptionsRead(pargs, next - 1, srch_opts, paths), MediaPath
  PROVE  OptionsRead(pargs, next, srch_opts', paths')
<1> DEFINE k == next
           e == [path |-> PathOf[arg.value], srch_opts |-> [o \in SearchNames |-> {}]]
<1>1. k \in DOMAIN pargs /\ pargs[k].arg_type = "POSITIONAL" /\ arg = pargs[k]
  BY ArgIs DEF MediaPath, arg
<1>2. k \in PathsOf(pargs)
  BY <1>1 DEF PathsOf
<1>3. PICK pos : PathsRead(pargs, k - 1, paths, pos)
  BY DEF OptionsRead
<1>4. paths \in Seq(PathRead \union {e}) /\ e \in PathRead \union {e}
  BY DEF OptionsType
<1>5. e.path = PathOf[pargs[k].value] /\ \A o \in Options : e.srch_opts[o] = {}
  BY <1>1 DEF Options
<1>6. paths' = Append(paths, e) /\ srch_opts' = srch_opts /\ pargs' = pargs /\ next' = next + 1
  BY DEF MediaPath, parsing
<1> HIDE DEF e, k
<1>7. PathsRead(pargs, k, Append(paths, e), Append(pos, k))
  BY <1>2, <1>3, <1>4, <1>5, PathsGrow
<1>8. GlobalsRead(pargs, k, srch_opts)
  <2>1. GlobalSet(pargs, k, srch_opts, srch_opts)
    BY <1>1, ArgFacts DEF GlobalSet, SetsIt, GlobalsOf, Nothing
  <2>2. QED
    BY <1>1, <2>1, GlobalsGrow DEF OptionsRead, k
<1>9. QED
  BY <1>6, <1>7, <1>8 DEF OptionsRead, k

LEMMA GlobalRuns ==
  ASSUME OptionsType, pargs \in Seq(ParsedArg), next \in 1 .. Len(pargs) + 1,
         OptionsRead(pargs, next - 1, srch_opts, paths), cli_arg_global, ParamOk(arg)
  PROVE  OptionsRead(pargs, next, srch_opts', paths')
<1> DEFINE k == next
<1>1. /\ k \in DOMAIN pargs /\ arg = pargs[k]
      /\ pargs[k].arg_type = "OPTION" /\ pargs[k].prefix \in {"-", "--"}
  BY ArgIs, ArgFacts DEF cli_arg_global, arg
<1>2. k \in GlobalsOf(pargs) /\ k \notin PathsOf(pargs) /\ \A at : k \notin LocalsOf(pargs, at)
  BY <1>1, ArgFacts DEF GlobalsOf, PathsOf, LocalsOf
<1>3. PICK pos : PathsRead(pargs, k - 1, paths, pos)
  BY DEF OptionsRead
<1>4. paths' = paths /\ srch_opts' = IF arg.value \in SearchNames THEN [srch_opts EXCEPT ![Sets(arg)] = Value(arg)]
                                     ELSE srch_opts
  BY DEF cli_arg_global
<1>5. GlobalSet(pargs, k, srch_opts, srch_opts')
  <2>1. SUFFICES ASSUME NEW o \in Options
                 PROVE  srch_opts'[o] = IF Sets(pargs[k]) = o THEN Value(pargs[k]) ELSE srch_opts[o]
    BY <1>1, <1>2 DEF GlobalSet, SetsIt
  <2>2. o \in SearchNames /\ DOMAIN srch_opts = SearchNames
    BY DEF Options, OptionsType
  <2>3. CASE arg.value \in SearchNames
    BY <1>1, <1>4, <2>2, <2>3
  <2>4. CASE arg.value \notin SearchNames
    BY <1>1, <1>4, <2>2, <2>4 DEF Sets, SearchNames
  <2>5. QED
    BY <2>3, <2>4
<1>6. \A j \in 1 .. Len(pos) : LocalSet(pargs, k, pos[j], paths[j].srch_opts, paths[j].srch_opts)
  BY <1>2 DEF LocalSet, SetsIt
<1> HIDE DEF k
<1>7. GlobalsRead(pargs, k, srch_opts')
  BY <1>1, <1>5, GlobalsGrow DEF OptionsRead, k
<1>8. PathsRead(pargs, k, paths, pos)
  BY <1>1, <1>2, <1>3, <1>6, PathsStay
<1>9. QED
  BY <1>4, <1>7, <1>8 DEF OptionsRead, k

LEMMA LocalRuns ==
  ASSUME OptionsType, pargs \in Seq(ParsedArg), next \in 1 .. Len(pargs) + 1,
         OptionsRead(pargs, next - 1, srch_opts, paths), cli_arg_local, ~argerrs'
  PROVE  OptionsRead(pargs, next, srch_opts', paths')
<1> DEFINE k == next
           a == pargs[k]
           n == Len(paths)
<1>1. /\ k \in DOMAIN pargs /\ arg = a /\ a \in ParsedArg
      /\ a.arg_type = "OPTION" /\ a.prefix = ":"
  BY ArgIs DEF cli_arg_local, arg
<1>2. k \notin GlobalsOf(pargs) /\ k \notin PathsOf(pargs)
  BY <1>1 DEF GlobalsOf, PathsOf
<1>3. PICK pos : PathsRead(pargs, k - 1, paths, pos)
  BY DEF OptionsRead
<1>4. Len(pos) = n /\ paths \in Seq(PathRead) /\ n \in Nat
  BY <1>3 DEF PathsRead, OptionsType
<1>5. srch_opts' = srch_opts
  BY DEF cli_arg_local
<1>6. GlobalsRead(pargs, k, srch_opts)
  <2>1. GlobalSet(pargs, k, srch_opts, srch_opts)
    BY <1>2 DEF GlobalSet, SetsIt
  <2>2. GlobalsRead(pargs, k - 1, srch_opts)
    BY DEF OptionsRead
  <2> HIDE DEF k
  <2>3. QED
    BY <1>1, <2>1, <2>2, GlobalsGrow
<1>7. CASE paths = <<>>
  <2>1. paths' = paths /\ Len(pos) = 0
    BY <1>4, <1>7 DEF cli_arg_local
  <2>2. \A j \in 1 .. Len(pos) : FALSE
    BY <2>1
  <2> HIDE DEF k
  <2>3. PathsRead(pargs, k, paths, pos)
    BY <1>1, <1>2, <1>3, <2>2, PathsStay
  <2>4. QED
    BY <1>5, <1>6, <2>1, <2>3 DEF OptionsRead, k
<1>8. CASE paths # <<>>
  <2>1. paths' = [paths EXCEPT ![n].srch_opts[Sets(a)] = {Value(a)}]
    BY <1>1, <1>8 DEF cli_arg_local
  <2>2. paths' = Put(paths, n, PutIn(paths[n], Sets(a), {Value(a)}))
    BY <2>1, Zenon DEF Put, PutIn
  <2>3. PICK pths : pths = paths'
    OBVIOUS
  <2>4. /\ pths \in Seq(PathRead) /\ Len(pths) = n
        /\ \A j \in 1 .. n : pths[j].path = paths[j].path /\ (j # n => pths[j] = paths[j])
        /\ \A o \in SearchNames :
             pths[n].srch_opts[o] = IF Sets(a) = o THEN {Value(a)} ELSE paths[n].srch_opts[o]
    <3>1. pths = Put(paths, Len(paths), PutIn(paths[Len(paths)], Sets(a), {Value(a)}))
      BY <2>2, <2>3
    <3> HIDE DEF a
    <3>2. QED
      BY <1>1, <1>8, <3>1, LocalTyped
  <2>5. ASSUME NEW j \in 1 .. Len(pos)
        PROVE  LocalSet(pargs, k, pos[j], paths[j].srch_opts, pths[j].srch_opts)
    <3>1. k \in LocalsOf(pargs, pos[j]) <=> j = n
      BY <1>1, <1>3, <1>4, LocalIsForLast
    <3>2. SUFFICES ASSUME NEW o \in Options
                   PROVE  pths[j].srch_opts[o] =
                            IF j = n /\ Sets(a) = o THEN {Value(a)} ELSE paths[j].srch_opts[o]
      BY <1>1, <3>1, Zenon DEF LocalSet, SetsIt
    <3>3. o \in SearchNames /\ j \in 1 .. n
      BY <1>4 DEF Options
    <3>4. QED
      BY <2>4, <3>3
  <2> HIDE DEF k
  <2>6. PathsRead(pargs, k, pths, pos)
    <3>1. Len(pths) = Len(paths) /\ \A j \in 1 .. Len(pos) : pths[j].path = paths[j].path
      BY <1>4, <2>4
    <3>2. QED
      BY <1>1, <1>2, <1>3, <2>5, <3>1, PathsStay
  <2>7. QED
    BY <1>5, <1>6, <2>3, <2>6 DEF OptionsRead, k
<1>9. QED
  BY <1>7, <1>8

(* Before the first argument nothing has been read.                        *)
LEMMA NothingRead ==
  ASSUME pargs \in Seq(ParsedArg), \A o \in Options : srch_opts[o] = Default(o)
  PROVE  OptionsRead(pargs, 0, srch_opts, <<>>)
<1>1. \A S : S \subseteq Nat /\ 0 \notin S => Upto(S, 0) = {}
  <2>1. \A k \in Nat : k <= 0 => k = 0
    OBVIOUS
  <2>2. QED
    BY <2>1 DEF Upto
<1>2. 0 \notin DOMAIN pargs
  BY ArgFacts
<1>3. GlobalsRead(pargs, 0, srch_opts)
  <2>1. Upto(GlobalsOf(pargs), 0) = {}
    <3>1. 0 \notin GlobalsOf(pargs)
      BY <1>2 DEF GlobalsOf
    <3>2. QED
      BY <1>1, <3>1, ArgFacts
  <2>2. QED
    BY <2>1 DEF GlobalsRead, GlobalIs, GivenIn
<1>4. PathsRead(pargs, 0, <<>>, <<>>)
  <2>1. \A k \in PathsOf(pargs) : ~ (k <= 0)
    BY <1>2, ArgFacts DEF PathsOf
  <2>2. <<>> \in Seq(Nat) /\ Len(<<>>) = 0 /\ \A j \in 1 .. 0 : FALSE
    OBVIOUS
  <2>3. QED
    BY <2>1, <2>2 DEF PathsRead
<1>5. QED
  BY <1>3, <1>4 DEF OptionsRead

(* What has been read is so from the start on.                             *)
LEMMA OptionsStart == CLIInit => OptionsInv
<1> SUFFICES ASSUME CLIInit PROVE OptionsInv
  OBVIOUS
<1>1. /\ srch_opts = [o \in SearchNames |-> IF o = "num_reads" THEN 1 ELSE FALSE]
      /\ paths = <<>> /\ next = 1 /\ cli \in {"exited", "parse"}
  BY DEF CLIInit
<1>2. \A o \in SearchNames : srch_opts[o] = IF o = "num_reads" THEN 1 ELSE FALSE
  BY <1>1
<1>3. "num_reads" \in SearchNames /\ 1 \in Values /\ FALSE \in Values
  BY DEF SearchNames, Values
<1>4. OptionsType
  <2>1. srch_opts \in [SearchNames -> Values]
    BY <1>1, <1>3
  <2>2. srch_opts["num_reads"] \in Int
    <3>1. srch_opts["num_reads"] = 1
      BY <1>2, <1>3, Zenon
    <3>2. QED
      BY <3>1
  <2>3. paths \in Seq(PathRead)
    BY <1>1
  <2>4. QED
    BY <2>1, <2>2, <2>3 DEF OptionsType
<1>5. \A o \in Options : srch_opts[o] = Default(o)
  BY <1>2, Zenon DEF Options, Default
<1>6. QED
  BY <1>1, <1>4, <1>5 DEF OptionsInv

(* And after every step.                                                   *)
LEMMA OptionsStep ==
  ASSUME ParserInv, OptionsInv, [CLINext]_cliVars
  PROVE  OptionsInv'
<1>1. pargs \in Seq(ParsedArg) /\ Len(pargs) \in Nat
  BY DEF ParserInv, ParserType
<1>2. CASE \/ cli_shortopt_parse \/ cli_longopt_parse("--") \/ cli_longopt_parse(":")
           \/ OptStopper \/ Positional
  <2>1. UNCHANGED <<next, srch_opts, paths>> /\ cli = "parse" /\ cli' \in {"parse", "error"}
    BY <1>2 DEF cli_shortopt_parse, cli_longopt_parse, OptStopper, Positional, Parse, options
  <2>2. QED
    BY <2>1 DEF OptionsInv, OptionsType
<1>3. CASE ParseEnds
  <2>1. UNCHANGED <<next, srch_opts, paths, pargs>> /\ cli = "parse" /\ cli' = "options"
    BY <1>3 DEF ParseEnds, parsing, options
  <2>2. next = 1 /\ paths = <<>> /\ 1 \in 1 .. Len(pargs) + 1 /\ 1 - 1 = 0
    BY <1>1, <2>1 DEF OptionsInv
  <2>3. OptionsRead(pargs, 0, srch_opts, <<>>)
    BY <1>1, <2>1, NothingRead DEF OptionsInv
  <2>4. QED
    BY <2>1, <2>2, <2>3 DEF OptionsInv, OptionsType
<1>4. CASE MediaPath \/ cli_arg_global \/ cli_arg_local
  <2>1. cli = "options" /\ cli' = cli /\ next' = next + 1 /\ pargs' = pargs /\ Interpret
    BY <1>4 DEF MediaPath, cli_arg_global, cli_arg_local, Interpret, parsing
  <2>2. next \in 1 .. Len(pargs) + 1 /\ next' \in 1 .. Len(pargs) + 1 /\ next' - 1 = next
        /\ OptionsType /\ (~argerrs => OptionsRead(pargs, next - 1, srch_opts, paths))
    BY <1>1, <2>1, ArgIs DEF OptionsInv
  <2>3. OptionsType'
    <3>1. CASE MediaPath
      BY <1>1, <2>2, <3>1, PathTyped
    <3>2. CASE cli_arg_global
      BY <1>1, <2>2, <3>2, GlobalTyped
    <3>3. CASE cli_arg_local
      <4> DEFINE pths == Put(paths, Len(paths), PutIn(paths[Len(paths)], Sets(arg), {Value(arg)}))
      <4>1. arg \in ParsedArg /\ arg.arg_type = "OPTION" /\ srch_opts' = srch_opts
        BY <1>1, <2>1, <2>2, <3>3, ArgIs DEF cli_arg_local
      <4>2. paths' = paths \/ (paths # <<>> /\ paths' = pths)
        BY <3>3 DEF cli_arg_local, Put, PutIn
      <4>3. paths # <<>> => pths \in Seq(PathRead)
        BY <2>2, <4>1, LocalTyped, Zenon
      <4> HIDE DEF pths
      <4>4. QED
        BY <2>2, <4>1, <4>2, <4>3 DEF OptionsType
    <3>4. QED
      BY <1>4, <3>1, <3>2, <3>3
  <2>4. ~argerrs' => OptionsRead(pargs, next, srch_opts', paths')
    <3> SUFFICES ASSUME ~argerrs' PROVE OptionsRead(pargs, next, srch_opts', paths')
      OBVIOUS
    <3>1. CASE MediaPath
      <4>1. ~argerrs
        BY <3>1 DEF MediaPath
      <4>2. QED
        BY <1>1, <2>2, <3>1, <4>1, PathRuns
    <3>2. CASE cli_arg_global
      <4>1. ~argerrs /\ ParamOk(arg)
        BY <3>2 DEF cli_arg_global
      <4>2. QED
        BY <1>1, <2>2, <3>2, <4>1, GlobalRuns
    <3>3. CASE cli_arg_local
      <4>1. ~argerrs
        BY <3>3 DEF cli_arg_local
      <4>2. QED
        BY <1>1, <2>2, <3>3, <4>1, LocalRuns
    <3>4. QED
      BY <1>4, <3>1, <3>2, <3>3
  <2>5. QED
    BY <2>1, <2>2, <2>3, <2>4 DEF OptionsInv
<1>5. CASE OptionsEnd
  <2>1. UNCHANGED <<srch_opts, paths, pargs>> /\ cli = "options" /\ next > Len(pargs)
        /\ cli' \in {"error", "search"} /\ (cli' = "search" => ~argerrs)
    BY <1>5 DEF OptionsEnd, parsing, options
  <2>2. next - 1 = Len(pargs)
    BY <1>1, <2>1 DEF OptionsInv
  <2>3. QED
    BY <2>1, <2>2 DEF OptionsInv, OptionsType
<1>6. CASE ArgExits \/ ReadPath \/ resolve_cli_path \/ SearchEnds \/ UNCHANGED cliVars
  <2>1. UNCHANGED <<srch_opts, paths, argerrs, pargs>>
    BY <1>6 DEF ArgExits, ReadPath, resolve_cli_path, SearchEnds, cliVars, parsing, options
  <2>2. \/ cli' \in {"exited", "error"}
        \/ cli = "search" /\ cli' \in {"search", "playing"}
        \/ cli' = cli /\ next' = next
    BY <1>6 DEF ArgExits, ReadPath, resolve_cli_path, SearchEnds, Searching, Interpret, cliVars
  <2>3. QED
    BY <2>1, <2>2 DEF OptionsInv, OptionsType
<1>7. QED
  BY <1>2, <1>3, <1>4, <1>5, <1>6 DEF CLINext
-----------------------------------------------------------------------------
Tree == DOMAIN Places
Closed(S) == S \subseteq Tree /\ \A d \in S : Children[d] \subseteq S

(* What is in a directory is in no other, and not above it.                *)
LEMMA TreeFacts ==
  ASSUME NEW d \in Tree
  PROVE  /\ Children[d] \subseteq Tree
         /\ Places[d] # "directory" => Children[d] = {}
         /\ \A c \in Children[d] : d \notin Below[c]
         /\ \A e \in Tree : \A x : x \in Children[d] /\ x \in Children[e] => d = e
<1>1. \A e \in Tree : e # d => Children[d] \intersect Children[e] = {}
  BY PlacesAssumption DEF Tree
<1>2. Children[d] \subseteq Tree
  BY PlacesAssumption DEF Tree
<1>3. QED
  BY <1>1, <1>2, PlacesAssumption DEF Tree

(* What is below d is the least closed set with d.                         *)
LEMMA BelowIs ==
  ASSUME NEW d \in Tree
  PROVE  /\ d \in Below[d] /\ Closed(Below[d])
         /\ \A S : Closed(S) /\ d \in S => Below[d] \subseteq S
<1>1. Below[d] = { x \in Tree : \A S \in SUBSET Tree : (d \in S /\ \A c \in S : Children[c] \subseteq S) => x \in S }
  BY DEF Below, Tree
<1>2. Below[d] = { x \in Tree : \A S \in SUBSET Tree : d \in S /\ Closed(S) => x \in S }
  BY <1>1, Zenon DEF Closed
<1> HIDE DEF Tree
<1>3. Closed(Below[d])
  <2>1. SUFFICES ASSUME NEW x \in Below[d], NEW y \in Children[x] PROVE y \in Below[d]
    BY <1>2 DEF Closed
  <2>2. x \in Tree /\ y \in Tree
    BY <1>2, <2>1, TreeFacts
  <2>3. ASSUME NEW S \in SUBSET Tree, d \in S, Closed(S)
        PROVE  y \in S
    BY <1>2, <2>1, <2>3 DEF Closed
  <2>4. QED
    BY <1>2, <2>2, <2>3
<1>4. QED
  BY <1>2, <1>3 DEF Closed

(* What is below something below d is below d.                             *)
LEMMA BelowGrows ==
  ASSUME NEW d \in Tree, NEW c \in Below[d]
  PROVE  c \in Tree /\ Below[c] \subseteq Below[d] /\ Children[c] \subseteq Below[d]
<1>1. Closed(Below[d]) /\ c \in Tree
  BY BelowIs DEF Closed
<1>2. QED
  BY <1>1, BelowIs DEF Closed

(* d itself, and what is below one of its children.                        *)
LEMMA BelowSplits ==
  ASSUME NEW d \in Tree
  PROVE  \A x : x \in Below[d] <=> x = d \/ \E c \in Children[d] : x \in Below[c]
<1> DEFINE S == {d} \union { x \in Tree : \E c \in Children[d] : x \in Below[c] }
<1>1. Children[d] \subseteq Tree /\ Children[d] \subseteq Below[d] /\ d \in Below[d]
  BY TreeFacts, BelowIs, BelowGrows
<1>2. \A c \in Children[d] : c \in Below[c] /\ Below[c] \subseteq Below[d] /\ Closed(Below[c])
  BY <1>1, BelowIs, BelowGrows
<1>3. Closed(S)
  <2>1. S \subseteq Tree
    OBVIOUS
  <2>2. ASSUME NEW x \in S, NEW y \in Children[x]
        PROVE  y \in S
    <3>1. CASE x = d
      BY <1>1, <1>2, <2>2, <3>1
    <3>2. CASE x # d
      <4>1. PICK c \in Children[d] : x \in Below[c]
        BY <2>2, <3>2
      <4>2. y \in Below[c] /\ y \in Tree
        BY <1>2, <2>2, <4>1 DEF Closed
      <4>3. QED
        BY <4>1, <4>2
    <3>3. QED
      BY <3>1, <3>2
  <2>3. QED
    BY <2>1, <2>2 DEF Closed
<1>4. Below[d] \subseteq S
  BY <1>3, BelowIs
<1>5. QED
  BY <1>1, <1>2, <1>4

(* What is below d is d or in something that is.                           *)
LEMMA HasParent ==
  ASSUME NEW d \in Tree, NEW x \in Below[d], x # d
  PROVE  \E e \in Below[d] : x \in Children[e]
<1> DEFINE S == { y \in Below[d] : y = d \/ \E e \in Below[d] : y \in Children[e] }
<1>1. Closed(Below[d]) /\ d \in Below[d]
  BY BelowIs
<1>2. Closed(S) /\ d \in S
  BY <1>1 DEF Closed
<1>3. x \in S
  BY <1>2, BelowIs
<1>4. QED
  BY <1>3

(* Nothing is below two things that are in one directory.                  *)
LEMMA SiblingsApart ==
  ASSUME NEW d \in Tree, NEW b \in Children[d], NEW c \in Children[d], b # c
  PROVE  \A x \in Below[b] : x \notin Below[c]
<1> DEFINE S == { x \in Below[b] : x \notin Below[c] }
<1>1. b \in Tree /\ c \in Tree /\ d \notin Below[b] /\ d \notin Below[c]
  BY TreeFacts
<1>2. Closed(Below[b]) /\ Closed(Below[c]) /\ b \in Below[b]
  BY <1>1, BelowIs
<1>3. b \in S
  <2>1. SUFFICES ASSUME b \in Below[c] PROVE FALSE
    BY <1>2
  <2>2. PICK e \in Below[c] : b \in Children[e]
    BY <1>1, <2>1, HasParent
  <2>3. e = d
    BY <1>2, <2>2, TreeFacts DEF Closed
  <2>4. QED
    BY <1>1, <2>2, <2>3
<1>4. ASSUME NEW x \in S, NEW y \in Children[x]
      PROVE  y \in S
  <2>1. y \in Below[b] /\ x \in Tree
    BY <1>2 DEF Closed
  <2>2. SUFFICES ASSUME y \in Below[c] PROVE FALSE
    BY <2>1
  <2>3. CASE y = c
    <3>1. x = d
      BY <1>4, <2>1, <2>3, TreeFacts
    <3>2. QED
      BY <1>1, <3>1
  <2>4. CASE y # c
    <3>1. PICK e \in Below[c] : y \in Children[e]
      BY <1>1, <2>2, <2>4, HasParent
    <3>2. x = e
      BY <1>2, <1>4, <2>1, <3>1, TreeFacts DEF Closed
    <3>3. QED
      BY <3>1, <3>2
  <2>5. QED
    BY <2>3, <2>4
<1>5. Closed(S)
  BY <1>2, <1>4 DEF Closed
<1>6. Below[b] \subseteq S
  BY <1>1, <1>3, <1>5, BelowIs
<1>7. QED
  BY <1>6
-----------------------------------------------------------------------------
(* The search of directory d leads to all that is below it, or to what is  *)
(* in it; one round of it leads to the files in it and leaves directories. *)
Scope(recurse, d) == IF recurse THEN Below[d] ELSE {d} \union Children[d]
Kids(d) == IF Places[d] = "directory" THEN Children[d] ELSE {}
DirsIn(recurse, d) == IF recurse THEN { c \in Kids(d) : Places[c] = "directory" } ELSE {}
FilesIn(d) == { c \in IF Places[d] = "file" THEN {d} ELSE Kids(d) : Places[c] = "file" }

(* A search leads to where it starts and to what is in that.               *)
LEMMA ScopeIs ==
  ASSUME NEW recurse, NEW d \in Tree
  PROVE  d \in Scope(recurse, d) /\ Children[d] \subseteq Scope(recurse, d) /\ Scope(recurse, d) \subseteq Tree
BY TreeFacts, BelowIs DEF Scope, Closed

(* The directories that a round leaves lead to different places.           *)
LEMMA DirsApart ==
  ASSUME NEW recurse, NEW d \in Tree
  PROVE  /\ \A c \in DirsIn(recurse, d) : c \in Tree /\ Scope(recurse, c) \subseteq Scope(recurse, d)
         /\ \A b, c \in DirsIn(recurse, d) :
              b # c => \A x \in Scope(recurse, b) : x \notin Scope(recurse, c)
<1>1. CASE ~recurse
  BY <1>1 DEF DirsIn
<1>2. CASE recurse
  <2>1. DirsIn(recurse, d) \subseteq Children[d] /\ Children[d] \subseteq Below[d] /\ Children[d] \subseteq Tree
    BY TreeFacts, BelowIs DEF DirsIn, Kids, Closed
  <2>2. \A x : Scope(recurse, x) = Below[x]
    BY <1>2 DEF Scope
  <2>3. \A c \in Children[d] : c \in Tree /\ Below[c] \subseteq Below[d]
    BY <2>1, BelowGrows
  <2>4. \A b, c \in Children[d] : b # c => \A x \in Below[b] : x \notin Below[c]
    BY SiblingsApart
  <2>5. QED
    BY <2>1, <2>2, <2>3, <2>4
<1>3. QED
  BY <1>1, <1>2

(* A round finds the files that the directories it leaves do not lead to.  *)
LEMMA FilesFound ==
  ASSUME NEW recurse, NEW d \in Tree, NEW f \in Tree, Places[f] = "file"
  PROVE  f \in FilesIn(d) <=> f \in Scope(recurse, d) /\ \A c \in DirsIn(recurse, d) : f \notin Scope(recurse, c)
<1>1. f \in FilesIn(d) <=> f = d \/ f \in Children[d]
  BY TreeFacts DEF FilesIn, Kids
<1>2. \A c \in Kids(d) : c \in Tree /\ c \in Children[d]
  BY TreeFacts DEF Kids
<1>3. \A x : x \in Children[d] => x \in Kids(d)
  BY TreeFacts DEF Kids
<1>4. CASE ~recurse
  BY <1>1, <1>4 DEF Scope, DirsIn
<1>5. CASE recurse
  <2>1. DirsIn(recurse, d) = { c \in Kids(d) : Places[c] = "directory" } /\ \A x : Scope(recurse, x) = Below[x]
    BY <1>5 DEF Scope, DirsIn
  <2>2. f \in Below[d] <=> f = d \/ \E c \in Children[d] : f \in Below[c]
    BY BelowSplits
  <2>3. ASSUME f \in Below[d], \A c \in DirsIn(recurse, d) : f \notin Below[c]
        PROVE  f = d \/ f \in Children[d]
    <3>1. SUFFICES ASSUME NEW c \in Children[d], f \in Below[c] PROVE f \in Children[d]
      BY <2>2, <2>3
    <3>2. c \in Tree /\ Places[c] # "directory"
      BY <1>2, <1>3, <2>1, <2>3, <3>1
    <3>3. Children[c] = {}
      BY <3>2, TreeFacts
    <3>4. f = c
      BY <3>1, <3>2, <3>3, BelowSplits
    <3>5. QED
      BY <3>4
  <2>4. ASSUME f = d \/ f \in Children[d], NEW c \in DirsIn(recurse, d), f \in Below[c]
        PROVE  FALSE
    <3>1. c \in Children[d] /\ Places[c] = "directory"
      BY <1>2, <2>1
    <3>2. f \in Children[d]
      BY <2>4, <3>1, TreeFacts
    <3>3. f # c /\ f \in Below[f]
      BY <3>1, BelowIs
    <3>4. QED
      BY <2>4, <3>1, <3>2, <3>3, SiblingsApart
  <2>5. f = d \/ f \in Children[d] => f \in Below[d]
    BY BelowIs DEF Closed
  <2>6. QED
    BY <1>1, <2>1, <2>3, <2>4, <2>5
<1>6. QED
  BY <1>4, <1>5

(* A sequence of all the elements of a finite set, each of them once.      *)
Lists(s, S) ==
  /\ s \in Seq(S) /\ \A i, j \in 1 .. Len(s) : i # j => s[i] # s[j]
  /\ \A x \in S : \E i \in 1 .. Len(s) : s[i] = x

(* SetToSeqs is all such sequences: an injection of a finite set into one  *)
(* of the same size is onto.                                               *)
LEMMA SetToSeqsList ==
  ASSUME NEW S, IsFiniteSet(S), NEW s \in SetToSeqs(S)
  PROVE  Lists(s, S)
<1> DEFINE n == Cardinality(S)
<1>1. n \in Nat
  BY FS_CardinalityType
<1>2. s \in [1 .. n -> S] /\ \A i, j \in 1 .. n : i # j => s[i] # s[j]
  BY DEF SetToSeqs
<1>3. Cardinality(1 .. n) = n
  <2>1. Cardinality(1 .. n) = IF 1 > n THEN 0 ELSE n - 1 + 1
    BY <1>1, FS_Interval
  <2> HIDE DEF n
  <2>2. QED
    BY <1>1, <2>1
<1>4. s \in Injection(1 .. n, S)
  BY <1>2 DEF Injection, IsInjective
<1>5. s \in Surjection(1 .. n, S)
  BY <1>3, <1>4, FS_Injection
<1>6. \A x \in S : \E i \in 1 .. n : s[i] = x
  BY <1>5 DEF Surjection
<1> HIDE DEF n
<1>7. s \in Seq(S) /\ Len(s) = n
  BY <1>1, <1>2
<1>8. QED
  BY <1>2, <1>6, <1>7 DEF Lists

(* One round of the search, with dirs still to be searched: the files it   *)
(* finds are those that dirs led to and no longer lead to.                 *)
StillAhead(recurse, dirs, f) == \E i \in 1 .. Len(dirs) : f \in Scope(recurse, dirs[i])
Apart(recurse, dirs, root) ==
  /\ \A i, j \in 1 .. Len(dirs) : i # j => \A x \in Scope(recurse, dirs[i]) : x \notin Scope(recurse, dirs[j])
  /\ \A i \in 1 .. Len(dirs) : Scope(recurse, dirs[i]) \subseteq Scope(recurse, root)

(* Sequences of places.                                                    *)
LEMMA FrontLast ==
  ASSUME NEW dirs \in Seq(Tree), dirs # <<>>
  PROVE  /\ Len(dirs) \in Nat \ {0} /\ Last(dirs) = dirs[Len(dirs)] /\ Last(dirs) \in Tree
         /\ Front(dirs) \in Seq(Tree) /\ Len(Front(dirs)) = Len(dirs) - 1
         /\ \A i \in 1 .. Len(dirs) - 1 : Front(dirs)[i] = dirs[i]
<1>1. Len(dirs) \in Nat \ {0} /\ dirs[Len(dirs)] \in Tree
  OBVIOUS
<1>2. \A i \in 1 .. Len(dirs) - 1 : dirs[i] \in Tree
  BY <1>1
<1>3. Front(dirs) = SubSeq(dirs, 1, Len(dirs) - 1)
  BY DEF Front
<1>4. /\ SubSeq(dirs, 1, Len(dirs) - 1) \in Seq(Tree)
      /\ Len(SubSeq(dirs, 1, Len(dirs) - 1)) = Len(dirs) - 1
      /\ \A i \in 1 .. Len(dirs) - 1 : SubSeq(dirs, 1, Len(dirs) - 1)[i] = dirs[i]
  <2> DEFINE n == Len(dirs) - 1
  <2>1. n \in Nat /\ \A i \in 1 .. n : dirs[i] \in Tree
    BY <1>1, <1>2
  <2> HIDE DEF n
  <2>2. /\ SubSeq(dirs, 1, n) \in Seq(Tree)
        /\ Len(SubSeq(dirs, 1, n)) = IF 1 <= n THEN n - 1 + 1 ELSE 0
        /\ \A i \in 1 .. n - 1 + 1 : SubSeq(dirs, 1, n)[i] = dirs[1 + i - 1]
    BY <2>1, SubSeqProperties
  <2>3. \A i \in 1 .. n : i \in 1 .. n - 1 + 1 /\ 1 + i - 1 = i
    BY <2>1
  <2>4. Len(SubSeq(dirs, 1, n)) = n
    BY <2>1, <2>2
  <2>5. QED
    BY <2>2, <2>3, <2>4 DEF n
<1>5. QED
  BY <1>1, <1>3, <1>4 DEF Last

LEMMA JoinedDirs ==
  ASSUME NEW a \in Seq(Tree), NEW b \in Seq(Tree)
  PROVE  /\ a \o b \in Seq(Tree)
         /\ Len(a) \in Nat /\ Len(b) \in Nat /\ Len(a \o b) = Len(a) + Len(b)
         /\ \A i \in 1 .. Len(a) : (a \o b)[i] = a[i]
         /\ \A i \in 1 .. Len(b) : (a \o b)[Len(a) + i] = b[i]
         /\ \A i \in 1 .. Len(a) + Len(b) :
              i \in 1 .. Len(a) \/ (i > Len(a) /\ i - Len(a) \in 1 .. Len(b) /\ (a \o b)[i] = b[i - Len(a)])
OBVIOUS

(* A round of the search.                                                  *)
LEMMA RoundAhead ==
  ASSUME NEW recurse, NEW root, NEW dirs \in Seq(Tree), dirs # <<>>, Apart(recurse, dirs, root),
         NEW order, Lists(order, DirsIn(recurse, Last(dirs)))
  PROVE  LET dirs2 == Front(dirs) \o order
         IN  /\ dirs2 \in Seq(Tree) /\ Apart(recurse, dirs2, root)
             /\ \A f \in Tree :
                  /\ StillAhead(recurse, dirs2, f) => StillAhead(recurse, dirs, f)
                  /\ Places[f] = "file" =>
                       (f \in FilesIn(Last(dirs)) <=>
                          StillAhead(recurse, dirs, f) /\ ~ StillAhead(recurse, dirs2, f))
<1> DEFINE d == Last(dirs)
           F == Front(dirs)
           n == Len(dirs)
           m == Len(F)
           D == DirsIn(recurse, d)
           dirs2 == F \o order
           In(x, c) == x \in Scope(recurse, c)
<1>1. /\ n \in Nat \ {0} /\ n \in 1 .. n /\ d = dirs[n] /\ d \in Tree
      /\ F \in Seq(Tree) /\ m = n - 1 /\ m \in Nat
      /\ \A i \in 1 .. m : F[i] = dirs[i] /\ i \in 1 .. n /\ i # n
      /\ \A i \in 1 .. n : i \in 1 .. m \/ i = n
  BY FrontLast
<1>2. /\ \A c \in D : c \in Tree /\ Scope(recurse, c) \subseteq Scope(recurse, d)
      /\ \A b, c \in D : b # c => \A x \in Scope(recurse, b) : x \notin Scope(recurse, c)
  BY <1>1, DirsApart
<1>3. /\ order \in Seq(D) /\ \A i, j \in 1 .. Len(order) : i # j => order[i] # order[j]
      /\ \A c \in D : \E i \in 1 .. Len(order) : order[i] = c
  BY DEF Lists
<1>4. order \in Seq(Tree) /\ \A i \in 1 .. Len(order) : order[i] \in D
  BY <1>2, <1>3
<1>5. /\ dirs2 \in Seq(Tree) /\ Len(dirs2) \in Nat
      /\ \A i \in 1 .. m : dirs2[i] = F[i] /\ i \in 1 .. Len(dirs2)
      /\ \A i \in 1 .. Len(order) : dirs2[m + i] = order[i] /\ m + i \in 1 .. Len(dirs2)
      /\ \A i \in 1 .. Len(dirs2) : i \in 1 .. m \/ (i > m /\ i - m \in 1 .. Len(order) /\ dirs2[i] = order[i - m])
  <2> HIDE DEF D, F, d, n
  <2>1. QED
    BY <1>1, <1>4, JoinedDirs
<1> HIDE DEF D, dirs2, F, d, m
<1>6. /\ \A i \in 1 .. m : Scope(recurse, dirs2[i]) \subseteq Scope(recurse, root)
      /\ \A i, j \in 1 .. m : i # j => \A x : ~ (In(x, dirs2[i]) /\ In(x, dirs2[j]))
      /\ \A i \in 1 .. m : \A x : ~ (In(x, dirs2[i]) /\ In(x, d))
      /\ Scope(recurse, d) \subseteq Scope(recurse, root)
  <2>1. \A i \in 1 .. n : Scope(recurse, dirs[i]) \subseteq Scope(recurse, root)
    BY DEF Apart
  <2>2. \A i, j \in 1 .. n : i # j => \A x : ~ (In(x, dirs[i]) /\ In(x, dirs[j]))
    BY DEF Apart
  <2> HIDE DEF n, In
  <2>3. \A i \in 1 .. m : dirs2[i] = dirs[i] /\ i \in 1 .. n /\ i # n
    BY <1>1, <1>5
  <2>4. QED
    BY <1>1, <2>1, <2>2, <2>3
<1>7. Apart(recurse, dirs2, root)
  <2>1. ASSUME NEW i \in 1 .. Len(dirs2), NEW j \in 1 .. Len(dirs2), i # j,
               NEW x, In(x, dirs2[i]), In(x, dirs2[j])
        PROVE  FALSE
    <3>1. CASE i \in 1 .. m /\ j \in 1 .. m
      BY <1>6, <2>1, <3>1
    <3>2. CASE i \in 1 .. m /\ j \notin 1 .. m
      <4>1. In(x, d)
        BY <1>2, <1>4, <1>5, <2>1, <3>2
      <4>2. QED
        BY <1>6, <2>1, <3>2, <4>1
    <3>3. CASE i \notin 1 .. m /\ j \in 1 .. m
      <4>1. In(x, d)
        BY <1>2, <1>4, <1>5, <2>1, <3>3
      <4>2. QED
        BY <1>6, <2>1, <3>3, <4>1
    <3>4. CASE i \notin 1 .. m /\ j \notin 1 .. m
      <4>1. i - m # j - m
        BY <1>1, <2>1
      <4>2. /\ i - m \in 1 .. Len(order) /\ dirs2[i] = order[i - m]
            /\ j - m \in 1 .. Len(order) /\ dirs2[j] = order[j - m]
        BY <1>5, <2>1, <3>4
      <4>3. order[i - m] # order[j - m] /\ order[i - m] \in D /\ order[j - m] \in D
        BY <1>3, <1>4, <4>1, <4>2
      <4>4. QED
        BY <1>2, <2>1, <4>2, <4>3
    <3>5. QED
      BY <3>1, <3>2, <3>3, <3>4
  <2>2. ASSUME NEW i \in 1 .. Len(dirs2)
        PROVE  Scope(recurse, dirs2[i]) \subseteq Scope(recurse, root)
    BY <1>2, <1>4, <1>5, <1>6
  <2>3. QED
    BY <2>1, <2>2 DEF Apart
<1>8. ASSUME NEW f
      PROVE  /\ StillAhead(recurse, dirs, f) <=> StillAhead(recurse, F, f) \/ In(f, d)
             /\ StillAhead(recurse, dirs2, f) <=> StillAhead(recurse, F, f) \/ \E c \in D : In(f, c)
             /\ In(f, d) => ~ StillAhead(recurse, F, f)
  <2>1. StillAhead(recurse, dirs, f) <=> StillAhead(recurse, F, f) \/ In(f, d)
    BY <1>1 DEF StillAhead, m
  <2>2. StillAhead(recurse, F, f) => StillAhead(recurse, dirs2, f)
    BY <1>5 DEF StillAhead, m
  <2>3. ASSUME NEW c \in D, In(f, c) PROVE StillAhead(recurse, dirs2, f)
    <3>1. PICK i \in 1 .. Len(order) : order[i] = c
      BY <1>3, <2>3
    <3>2. m + i \in 1 .. Len(dirs2) /\ In(f, dirs2[m + i])
      BY <1>5, <2>3, <3>1
    <3>3. QED
      BY <3>2, Zenon DEF StillAhead
  <2>4. ASSUME NEW i \in 1 .. Len(dirs2), In(f, dirs2[i])
        PROVE  StillAhead(recurse, F, f) \/ \E c \in D : In(f, c)
    BY <1>4, <1>5, <2>4 DEF StillAhead, m
  <2>5. In(f, d) => ~ StillAhead(recurse, F, f)
    BY <1>5, <1>6 DEF StillAhead, m
  <2>6. QED
    BY <2>1, <2>2, <2>3, <2>4, <2>5 DEF StillAhead
<1>9. ASSUME NEW f \in Tree
      PROVE  /\ StillAhead(recurse, dirs2, f) => StillAhead(recurse, dirs, f)
             /\ Places[f] = "file" =>
                  (f \in FilesIn(d) <=> StillAhead(recurse, dirs, f) /\ ~ StillAhead(recurse, dirs2, f))
  <2>1. StillAhead(recurse, dirs2, f) => StillAhead(recurse, dirs, f)
    BY <1>2, <1>8
  <2>2. Places[f] = "file" => (f \in FilesIn(d) <=> In(f, d) /\ \A c \in D : ~ In(f, c))
    BY <1>1, FilesFound DEF D
  <2>3. QED
    BY <1>8, <2>1, <2>2
<1>10. QED
  BY <1>5, <1>7, <1>9 DEF dirs2, F, d

(* Where the file f is in the list.                                        *)
Plays(files, f) == { i \in DOMAIN files : files[i] = f }

LEMMA PlaysIs ==
  ASSUME NEW files \in Seq(Tree), NEW f
  PROVE  IsFiniteSet(Plays(files, f)) /\ Cardinality(Plays(files, f)) \in Nat
<1>1. DOMAIN files = 1 .. Len(files) /\ Len(files) \in Nat
  OBVIOUS
<1>2. IsFiniteSet(1 .. Len(files))
  BY <1>1, FS_Interval
<1>3. QED
  BY <1>1, <1>2, FS_Subset, FS_CardinalityType DEF Plays

(* The files of a round are put behind the others, each once.              *)
LEMMA PlaysGrow ==
  ASSUME NEW files \in Seq(Tree), NEW S \in SUBSET Tree, NEW sorted, Lists(sorted, S), NEW f
  PROVE  /\ files \o sorted \in Seq(Tree)
         /\ Cardinality(Plays(files \o sorted, f)) = Cardinality(Plays(files, f)) + IF f \in S THEN 1 ELSE 0
<1> DEFINE all == files \o sorted
           n == Len(files)
<1>1. /\ sorted \in Seq(Tree) /\ \A i \in 1 .. Len(sorted) : sorted[i] \in S
      /\ \A i, j \in 1 .. Len(sorted) : i # j => sorted[i] # sorted[j]
      /\ \A x \in S : \E i \in 1 .. Len(sorted) : sorted[i] = x
  BY DEF Lists
<1>2. /\ all \in Seq(Tree) /\ n \in Nat /\ Len(sorted) \in Nat
      /\ DOMAIN all = 1 .. n + Len(sorted) /\ DOMAIN files = 1 .. n
      /\ \A i \in 1 .. n : all[i] = files[i]
      /\ \A i \in 1 .. Len(sorted) : all[n + i] = sorted[i]
  BY <1>1, JoinedDirs
<1> HIDE DEF all, n
<1>3. \A i \in 1 .. n + Len(sorted) : i \notin 1 .. n => i - n \in 1 .. Len(sorted) /\ all[i] = sorted[i - n]
  <2>1. ASSUME NEW i \in 1 .. n + Len(sorted), i \notin 1 .. n
        PROVE  i - n \in 1 .. Len(sorted) /\ n + (i - n) = i
    BY <1>2, <2>1
  <2>2. QED
    BY <1>2, <2>1
<1>4. CASE f \notin S
  <2>1. Plays(all, f) = Plays(files, f)
    <3>1. ASSUME NEW i \in 1 .. n + Len(sorted), all[i] = f PROVE i \in 1 .. n
      BY <1>1, <1>3, <1>4, <3>1
    <3>2. \A i \in 1 .. n : i \in 1 .. n + Len(sorted)
      BY <1>2
    <3>3. QED
      BY <1>2, <3>1, <3>2 DEF Plays
  <2>2. QED
    BY <1>2, <1>4, <2>1, PlaysIs DEF all
<1>5. CASE f \in S
  <2>1. PICK k \in 1 .. Len(sorted) : sorted[k] = f
    BY <1>1, <1>5
  <2>2. n + k \in 1 .. n + Len(sorted) /\ n + k \notin 1 .. n /\ all[n + k] = f
    BY <1>2, <2>1
  <2>3. ASSUME NEW i \in 1 .. n + Len(sorted), all[i] = f, i \notin 1 .. n PROVE i = n + k
    <3>1. i - n \in 1 .. Len(sorted) /\ sorted[i - n] = f
      BY <1>3, <2>3
    <3>2. i - n = k
      BY <1>1, <2>1, <3>1
    <3>3. QED
      BY <1>2, <3>2
  <2>4. \A i \in 1 .. n : i \in 1 .. n + Len(sorted)
    BY <1>2
  <2>5. Plays(all, f) = Plays(files, f) \union {n + k} /\ n + k \notin Plays(files, f)
    BY <1>2, <2>2, <2>3, <2>4 DEF Plays
  <2>6. Cardinality(Plays(all, f)) = Cardinality(Plays(files, f)) + 1
    BY <2>5, PlaysIs, FS_AddElement
  <2>7. QED
    BY <1>2, <1>5, <2>6 DEF all
<1>6. QED
  BY <1>4, <1>5
-----------------------------------------------------------------------------
(* What path j asks for, and the reads of the paths that have found the    *)
(* file f when read n of path j is at the directories that may still lead  *)
(* to f (ahead).                                                           *)
Resolved(pths, glob, j, o) ==
  IF pths[j].srch_opts[o] = {} THEN glob[o] ELSE CHOOSE v \in pths[j].srch_opts[o] : TRUE
Wanted(pths, glob, j, f) ==
  LET type == IF Resolved(pths, glob, j, "probe") THEN media_type[f].probe ELSE media_type[f].path
  IN  \/ type = "VIDEO" /\ ~Resolved(pths, glob, j, "ignore_video")
      \/ type = "AUDIO" /\ ~Resolved(pths, glob, j, "ignore_audio")
      \/ type = "IMAGE" /\ ~Resolved(pths, glob, j, "ignore_images")
Finds(pths, glob, j, f) ==
  f \in Scope(Resolved(pths, glob, j, "recurse"), pths[j].path) /\ Wanted(pths, glob, j, f)
HasFound(pths, glob, j, n, ahead, f, i, r) ==
  /\ r <= Resolved(pths, glob, i, "num_reads") /\ Finds(pths, glob, i, f)
  /\ i < j \/ (i = j /\ r < n) \/ (i = j /\ r = n /\ ~ahead)
Found(pths, glob, j, n, ahead, f) ==
  { x \in (1 .. Len(pths)) \X (Nat \ {0}) : HasFound(pths, glob, j, n, ahead, f, x[1], x[2]) }

(* What is found does not change, or by one read of one path.              *)
LEMMA FoundSame ==
  ASSUME NEW pths, NEW glob, NEW f, NEW j, NEW n, NEW ahead, NEW j2, NEW n2, NEW ahead2,
         \A i \in 1 .. Len(pths), r \in Nat \ {0} :
           HasFound(pths, glob, j, n, ahead, f, i, r) <=> HasFound(pths, glob, j2, n2, ahead2, f, i, r)
  PROVE  Found(pths, glob, j2, n2, ahead2, f) = Found(pths, glob, j, n, ahead, f)
<1>1. \A x \in (1 .. Len(pths)) \X (Nat \ {0}) : x[1] \in 1 .. Len(pths) /\ x[2] \in Nat \ {0}
  OBVIOUS
<1>2. QED
  BY <1>1, Zenon DEF Found

LEMMA FoundMore ==
  ASSUME NEW pths, Len(pths) \in Nat, NEW glob, NEW f, NEW j \in 1 .. Len(pths), NEW n \in Nat \ {0}, NEW ahead, NEW ahead2,
         n <= Resolved(pths, glob, j, "num_reads"), Finds(pths, glob, j, f), ahead, ~ahead2,
         IsFiniteSet(Found(pths, glob, j, n, ahead, f))
  PROVE  /\ IsFiniteSet(Found(pths, glob, j, n, ahead2, f))
         /\ Cardinality(Found(pths, glob, j, n, ahead2, f)) = Cardinality(Found(pths, glob, j, n, ahead, f)) + 1
<1> DEFINE old == Found(pths, glob, j, n, ahead, f)
           new == Found(pths, glob, j, n, ahead2, f)
           X == (1 .. Len(pths)) \X (Nat \ {0})
<1>1. \A x \in X : x[1] \in 1 .. Len(pths) /\ x[2] \in Nat \ {0} /\ x = <<x[1], x[2]>>
  OBVIOUS
<1>2. <<j, n>> \in X /\ <<j, n>>[1] = j /\ <<j, n>>[2] = n
  OBVIOUS
<1>3. ~ (n < n) /\ ~ (j < j)
  OBVIOUS
<1> HIDE DEF X
<1>4. old = { x \in X : HasFound(pths, glob, j, n, ahead, f, x[1], x[2]) }
      /\ new = { x \in X : HasFound(pths, glob, j, n, ahead2, f, x[1], x[2]) }
  BY DEF Found, X
<1> HIDE DEF old, new
<1>5. <<j, n>> \in new /\ <<j, n>> \notin old
  BY <1>2, <1>3, <1>4 DEF HasFound
<1>6. \A x \in X : x \in old => x \in new
  BY <1>4 DEF HasFound
<1>7. \A x \in X : x \in new /\ x \notin old => x[1] = j /\ x[2] = n
  BY <1>4 DEF HasFound
<1>8. new = old \union {<<j, n>>}
  BY <1>1, <1>4, <1>5, <1>6, <1>7
<1>9. IsFiniteSet(old)
  BY DEF old
<1>10. QED
  BY <1>5, <1>8, <1>9, FS_AddElement DEF old, new

Counted(pths, glob, j, n, dirs, files) ==
  \A f \in Tree : Places[f] = "file" =>
    LET found == Found(pths, glob, j, n, StillAhead(Resolved(pths, glob, j, "recurse"), dirs, f), f)
    IN  IsFiniteSet(found) /\ Cardinality(found) = Cardinality(Plays(files, f))
SearchFacts ==
  /\ next \in 1 .. Len(paths) + 1 /\ reads \in Nat
  /\ to_search \in Seq(Tree) /\ media_files \in Seq(Tree)
  /\ to_search # <<>> =>
       /\ next <= Len(paths) /\ reads >= 1 /\ reads <= Resolved(paths, srch_opts, next, "num_reads")
       /\ Apart(Resolved(paths, srch_opts, next, "recurse"), to_search, paths[next].path)
  /\ Counted(paths, srch_opts, next, reads, to_search, media_files)

(* Of a path that was read.                                                *)
LEMMA PathFacts ==
  ASSUME OptionsType, NEW j \in 1 .. Len(paths)
  PROVE  paths[j].path \in Tree /\ Resolved(paths, srch_opts, j, "num_reads") \in Int
<1>1. paths[j] \in PathRead
  BY DEF OptionsType
<1>2. paths[j].path \in DOMAIN Places /\ paths[j].srch_opts["num_reads"] \in SUBSET Int
  BY <1>1 DEF PathRead
<1>3. srch_opts["num_reads"] \in Int
  BY DEF OptionsType
<1> DEFINE V == paths[j].srch_opts["num_reads"]
<1>4. Resolved(paths, srch_opts, j, "num_reads") = IF V = {} THEN srch_opts["num_reads"] ELSE CHOOSE v \in V : TRUE
  BY DEF Resolved
<1> HIDE DEF V
<1>5. V # {} => (CHOOSE v \in V : TRUE) \in V
  OBVIOUS
<1>6. QED
  BY <1>2, <1>3, <1>4, <1>5 DEF Tree, V

(* resolve_path_search_options is what the path asks for.                  *)
LEMMA ResolvedIs ==
  ASSUME NEW o \in SearchNames
  PROVE  resolved[o] = Resolved(paths, srch_opts, next, o)
BY DEF resolved, resolve_path_search_options, Resolved

LEMMA AheadOfOne ==
  ASSUME NEW recurse, NEW f
  PROVE  ~ StillAhead(recurse, <<>>, f)
         /\ \A root : StillAhead(recurse, <<root>>, f) <=> f \in Scope(recurse, root)
<1>1. Len(<<>>) = 0 /\ \A i \in 1 .. 0 : FALSE
  OBVIOUS
<1>2. \A root : Len(<<root>>) = 1 /\ <<root>>[1] = root
  OBVIOUS
<1>3. \A i \in 1 .. 1 : i = 1
  OBVIOUS
<1>4. QED
  BY <1>1, <1>2, <1>3 DEF StillAhead

(* A read of a path that starts or is over finds nothing.                  *)
LEMMA ReadKeeps ==
  ASSUME OptionsType, SearchFacts, ReadPath
  PROVE  SearchFacts'
<1> DEFINE j == next
           n == reads
           num == Resolved(paths, srch_opts, j, "num_reads")
           recurse == Resolved(paths, srch_opts, j, "recurse")
<1>1. /\ j \in 1 .. Len(paths) /\ Len(paths) \in Nat /\ n \in Nat /\ to_search = <<>>
      /\ UNCHANGED <<paths, srch_opts, media_files>> /\ media_files \in Seq(Tree)
  BY DEF ReadPath, Searching, SearchFacts, options, OptionsType
<1>2. paths[j].path \in Tree /\ num \in Int
  BY <1>1, PathFacts
<1>3. resolved["num_reads"] = num
  BY ResolvedIs DEF SearchNames
<1>4. CASE n < num
  <2> DEFINE root == paths[j].path
  <2>1. reads' = n + 1 /\ to_search' = <<root>> /\ next' = j
    BY <1>3, <1>4 DEF ReadPath
  <2>2. <<root>> \in Seq(Tree) /\ Len(<<root>>) = 1 /\ <<root>>[1] = root /\ \A i \in 1 .. 1 : i = 1
    BY <1>2
  <2>3. Apart(recurse, <<root>>, root)
    BY <2>2 DEF Apart
  <2>4. ASSUME NEW f \in Tree
        PROVE  Found(paths, srch_opts, j, n + 1, StillAhead(recurse, <<root>>, f), f) =
                 Found(paths, srch_opts, j, n, StillAhead(recurse, <<>>, f), f)
    <3> DEFINE a == StillAhead(recurse, <<>>, f)
               b == StillAhead(recurse, <<root>>, f)
    <3>1. ~a /\ (Finds(paths, srch_opts, j, f) => b)
      BY AheadOfOne DEF Finds
    <3>2. \A r \in Nat : r < n + 1 <=> r < n \/ r = n
      BY <1>1
    <3>3. ASSUME NEW i \in 1 .. Len(paths), NEW r \in Nat \ {0}
          PROVE  HasFound(paths, srch_opts, j, n, a, f, i, r) <=> HasFound(paths, srch_opts, j, n + 1, b, f, i, r)
      <4> HIDE DEF a, b, j, n
      <4>1. QED
        BY <3>1, <3>2 DEF HasFound
    <3> HIDE DEF a, b, j, n
    <3>4. Found(paths, srch_opts, j, n + 1, b, f) = Found(paths, srch_opts, j, n, a, f)
      BY <3>3, FoundSame
    <3>5. QED
      BY <3>4 DEF a, b
  <2>5. Counted(paths, srch_opts, j, n + 1, <<root>>, media_files)
    BY <1>1, <2>4, Zenon DEF Counted, SearchFacts
  <2>6. n + 1 \in Nat /\ n + 1 >= 1 /\ n + 1 <= num /\ j <= Len(paths) /\ j \in 1 .. Len(paths) + 1
    BY <1>1, <1>2, <1>4
  <2>7. QED
    BY <1>1, <2>1, <2>2, <2>3, <2>5, <2>6, Zenon DEF SearchFacts
<1>5. CASE ~ (n < num)
  <2>1. reads' = 0 /\ to_search' = <<>> /\ next' = j + 1
    BY <1>1, <1>3, <1>5 DEF ReadPath
  <2> DEFINE recurse2 == Resolved(paths, srch_opts, j + 1, "recurse")
  <2>2. ASSUME NEW f \in Tree
        PROVE  Found(paths, srch_opts, j + 1, 0, StillAhead(recurse2, <<>>, f), f) =
                 Found(paths, srch_opts, j, n, StillAhead(recurse, <<>>, f), f)
    <3> DEFINE a == StillAhead(recurse, <<>>, f)
               b == StillAhead(recurse2, <<>>, f)
    <3>1. ~a /\ ~b
      BY AheadOfOne
    <3>2. ASSUME NEW i \in 1 .. Len(paths), NEW r \in Nat \ {0}
          PROVE  HasFound(paths, srch_opts, j, n, a, f, i, r) <=> HasFound(paths, srch_opts, j + 1, 0, b, f, i, r)
      <4>1. i < j + 1 <=> i < j \/ i = j
        BY <1>1
      <4>2. ~ (r < 0) /\ r # 0
        BY <3>2
      <4>3. r <= num => r < n \/ r = n
        BY <1>1, <1>2, <1>5
      <4> HIDE DEF a, b, j, n
      <4>4. QED
        BY <3>1, <4>1, <4>2, <4>3 DEF HasFound
    <3> HIDE DEF a, b, j, n
    <3>3. Found(paths, srch_opts, j + 1, 0, b, f) = Found(paths, srch_opts, j, n, a, f)
      BY <3>2, FoundSame
    <3>4. QED
      BY <3>3 DEF a, b
  <2>3. Counted(paths, srch_opts, j + 1, 0, <<>>, media_files)
    BY <1>1, <2>2, Zenon DEF Counted, SearchFacts
  <2>4. j + 1 \in 1 .. Len(paths) + 1 /\ 0 \in Nat /\ <<>> \in Seq(Tree)
    BY <1>1
  <2>5. QED
    BY <1>1, <2>1, <2>3, <2>4, Zenon DEF SearchFacts
<1>6. QED
  BY <1>4, <1>5

(* A round of the search finds what it puts in the list.                   *)
LEMMA RoundKeeps ==
  ASSUME OptionsType, SearchFacts, resolve_cli_path, cli' # "error"
  PROVE  SearchFacts' /\ cli' = cli
<1> DEFINE j == next
           n == reads
           recurse == Resolved(paths, srch_opts, j, "recurse")
           curr == Last(to_search)
           test == { c \in FilesIn(curr) : Wanted(paths, srch_opts, j, c) }
<1>1. /\ j \in 1 .. Len(paths) /\ Len(paths) \in Nat /\ n \in Nat \ {0} /\ to_search # <<>>
      /\ to_search \in Seq(Tree) /\ n <= Resolved(paths, srch_opts, j, "num_reads")
      /\ Apart(recurse, to_search, paths[j].path)
      /\ UNCHANGED <<paths, srch_opts, next, reads>> /\ media_files \in Seq(Tree)
  BY DEF resolve_cli_path, Searching, SearchFacts, options, OptionsType
<1>2. curr \in Tree
  BY <1>1, FrontLast
<1>3. /\ resolved["recurse"] = recurse
      /\ \A c : test_media_file(c) <=> Wanted(paths, srch_opts, j, c)
  <2>1. {"recurse", "probe", "ignore_audio", "ignore_video", "ignore_images"} \subseteq SearchNames
    BY DEF SearchNames
  <2>2. QED
    BY <2>1, ResolvedIs DEF test_media_file, Wanted
<1>4. Places[curr] # Nothing
      /\ (\E order \in SetToSeqs(DirsIn(recurse, curr)) : to_search' = Front(to_search) \o order)
      /\ (\E sorted \in SetToSeqs(test) : media_files' = media_files \o sorted)
      /\ cli' = cli
  <2>1. DirsIn(recurse, curr) = IF resolved["recurse"] THEN { c \in Kids(curr) : Places[c] = "directory" } ELSE {}
    BY <1>3 DEF DirsIn
  <2>2. test = { c \in IF Places[curr] = "file" THEN {curr} ELSE Kids(curr) : Places[c] = "file" /\ test_media_file(c) }
    BY <1>3 DEF FilesIn
  <2> HIDE DEF test, curr, recurse
  <2>3. QED
    BY <2>1, <2>2 DEF resolve_cli_path, Kids, curr
<1>5. test \subseteq Tree /\ DirsIn(recurse, curr) \subseteq Tree
  BY <1>2, TreeFacts DEF FilesIn, DirsIn, Kids
<1>6. IsFiniteSet(test) /\ IsFiniteSet(DirsIn(recurse, curr))
  BY <1>5, PlacesAssumption, FS_Subset DEF Tree
<1>7. PICK order : Lists(order, DirsIn(recurse, curr)) /\ to_search' = Front(to_search) \o order
  BY <1>4, <1>6, SetToSeqsList
<1>8. PICK sorted : Lists(sorted, test) /\ media_files' = media_files \o sorted
  BY <1>4, <1>6, SetToSeqsList
<1> HIDE DEF test
<1>9. /\ to_search' \in Seq(Tree) /\ Apart(recurse, to_search', paths[j].path)
      /\ \A f \in Tree :
           /\ StillAhead(recurse, to_search', f) => StillAhead(recurse, to_search, f)
           /\ Places[f] = "file" =>
                (f \in FilesIn(curr) <=>
                   StillAhead(recurse, to_search, f) /\ ~ StillAhead(recurse, to_search', f))
  <2> HIDE DEF recurse, j
  <2>1. QED
    BY <1>1, <1>7, RoundAhead
<1>10. /\ media_files' \in Seq(Tree)
       /\ \A f : Cardinality(Plays(media_files', f)) = Cardinality(Plays(media_files, f)) + IF f \in test THEN 1 ELSE 0
  BY <1>1, <1>5, <1>8, PlaysGrow
<1>11. ASSUME NEW f \in Tree, Places[f] = "file"
       PROVE  LET old == Found(paths, srch_opts, j, n, StillAhead(recurse, to_search, f), f)
                  new == Found(paths, srch_opts, j, n, StillAhead(recurse, to_search', f), f)
              IN  IsFiniteSet(old) =>
                    IsFiniteSet(new) /\ Cardinality(new) = Cardinality(old) + IF f \in test THEN 1 ELSE 0
  <2> DEFINE a == StillAhead(recurse, to_search, f)
             b == StillAhead(recurse, to_search', f)
             old == Found(paths, srch_opts, j, n, a, f)
             new == Found(paths, srch_opts, j, n, b, f)
  <2> SUFFICES ASSUME IsFiniteSet(old)
               PROVE  IsFiniteSet(new) /\ Cardinality(new) = Cardinality(old) + IF f \in test THEN 1 ELSE 0
    OBVIOUS
  <2>1. (b => a) /\ (f \in FilesIn(curr) <=> a /\ ~b)
    BY <1>9, <1>11
  <2>2. f \in test <=> a /\ ~b /\ Wanted(paths, srch_opts, j, f)
    BY <2>1 DEF test
  <2>3. a => (Wanted(paths, srch_opts, j, f) <=> Finds(paths, srch_opts, j, f))
    <3>1. a => f \in Scope(recurse, paths[j].path)
      BY <1>1 DEF StillAhead, Apart
    <3>2. QED
      BY <3>1 DEF Finds
  <2> HIDE DEF a, b, recurse, j, n
  <2>4. CASE f \in test
    <3>1. a /\ ~b /\ Finds(paths, srch_opts, j, f)
      BY <2>2, <2>3, <2>4
    <3>2. IsFiniteSet(new) /\ Cardinality(new) = Cardinality(old) + 1
      BY <1>1, <3>1, FoundMore
    <3>3. QED
      BY <2>4, <3>2
  <2>5. CASE f \notin test
    <3>1. Finds(paths, srch_opts, j, f) => (a <=> b)
      BY <2>1, <2>2, <2>3, <2>5
    <3>2. ASSUME NEW i \in 1 .. Len(paths), NEW r \in Nat \ {0}
          PROVE  HasFound(paths, srch_opts, j, n, a, f, i, r) <=> HasFound(paths, srch_opts, j, n, b, f, i, r)
      BY <3>1 DEF HasFound
    <3>3. new = old
      BY <3>2, FoundSame
    <3>4. Cardinality(old) \in Nat
      BY FS_CardinalityType
    <3>5. QED
      BY <2>5, <3>3, <3>4
  <2>6. QED
    BY <2>4, <2>5
<1>12. Counted(paths, srch_opts, j, n, to_search', media_files')
  <2>1. Counted(paths, srch_opts, j, n, to_search, media_files)
    BY DEF SearchFacts
  <2> HIDE DEF recurse, j, n
  <2>2. QED
    BY <1>10, <1>11, <2>1 DEF Counted, recurse
<1>13. QED
  BY <1>1, <1>4, <1>9, <1>10, <1>12 DEF SearchFacts

SearchInv ==
  /\ cli \in {"parse", "options"} => reads = 0 /\ to_search = <<>> /\ media_files = <<>>
  /\ cli \in {"search", "playing"} => SearchFacts
  /\ cli = "playing" => next > Len(paths)

(* Before the search nothing is found or played.                           *)
LEMMA NothingFound ==
  ASSUME NEW pths, NEW glob
  PROVE  Counted(pths, glob, 1, 0, <<>>, <<>>)
<1>1. SUFFICES ASSUME NEW f, NEW ahead
               PROVE  Found(pths, glob, 1, 0, ahead, f) = {} /\ Plays(<<>>, f) = {}
  BY <1>1, FS_EmptySet, Zenon DEF Counted
<1>2. \A i \in 1 .. Len(pths), r \in Nat \ {0} : ~ (i < 1) /\ ~ (r < 0) /\ r # 0
  OBVIOUS
<1>3. ASSUME NEW x \in (1 .. Len(pths)) \X (Nat \ {0})
      PROVE  ~ HasFound(pths, glob, 1, 0, ahead, f, x[1], x[2])
  <2>1. x[1] \in 1 .. Len(pths) /\ x[2] \in Nat \ {0}
    OBVIOUS
  <2>2. QED
    BY <1>2, <2>1 DEF HasFound
<1>4. Plays(<<>>, f) = {}
  BY DEF Plays
<1>5. QED
  BY <1>3, <1>4 DEF Found

(* What has been found is in the list after every step.                    *)
LEMMA SearchStep ==
  ASSUME OptionsInv, SearchInv, [CLINext]_cliVars
  PROVE  SearchInv'
<1>1. CASE \/ cli_shortopt_parse \/ cli_longopt_parse("--") \/ cli_longopt_parse(":")
           \/ OptStopper \/ Positional \/ ParseEnds
           \/ MediaPath \/ ArgExits \/ cli_arg_global \/ cli_arg_local
  <2>1. UNCHANGED search /\ cli \in {"parse", "options"} /\ cli' \notin {"search", "playing"}
    BY <1>1 DEF cli_shortopt_parse, cli_longopt_parse, OptStopper, Positional, ParseEnds, Parse,
                MediaPath, ArgExits, cli_arg_global, cli_arg_local, Interpret
  <2>2. QED
    BY <2>1 DEF SearchInv, search
<1>2. CASE OptionsEnd
  <2>1. UNCHANGED search /\ UNCHANGED options /\ cli = "options"
        /\ (cli' = "error" \/ (cli' = "search" /\ next' = 1))
    BY <1>2 DEF OptionsEnd
  <2>2. SUFFICES ASSUME cli' = "search" PROVE SearchFacts'
    BY <2>1 DEF SearchInv
  <2>3. reads' = 0 /\ to_search' = <<>> /\ media_files' = <<>> /\ paths' = paths /\ srch_opts' = srch_opts
    BY <2>1 DEF SearchInv, search, options
  <2>4. 1 \in 1 .. Len(paths) + 1 /\ 0 \in Nat /\ <<>> \in Seq(Tree)
    BY DEF OptionsInv, OptionsType
  <2>5. QED
    BY <2>1, <2>2, <2>3, <2>4, NothingFound, Zenon DEF SearchFacts
<1>3. CASE ReadPath
  <2>1. cli = "search" /\ cli' = cli
    BY <1>3 DEF ReadPath, Searching
  <2>2. SearchFacts'
    BY <1>3, <2>1, ReadKeeps DEF OptionsInv, SearchInv
  <2>3. QED
    BY <2>1, <2>2 DEF SearchInv
<1>4. CASE resolve_cli_path
  <2>1. cli = "search"
    BY <1>4 DEF resolve_cli_path, Searching
  <2>2. CASE cli' = "error"
    BY <2>2 DEF SearchInv
  <2>3. CASE cli' # "error"
    <3>1. SearchFacts' /\ cli' = cli
      BY <1>4, <2>1, <2>3, RoundKeeps DEF OptionsInv, SearchInv
    <3>2. QED
      BY <2>1, <3>1 DEF SearchInv
  <2>4. QED
    BY <2>2, <2>3
<1>5. CASE SearchEnds
  <2>1. UNCHANGED <<next, search, options>> /\ cli = "search" /\ next > Len(paths)
        /\ cli' \in {"error", "playing"}
    BY <1>5 DEF SearchEnds
  <2>2. QED
    BY <2>1 DEF SearchInv, SearchFacts, search, options
<1>6. CASE UNCHANGED cliVars
  BY <1>6 DEF cliVars, search, options, SearchInv, SearchFacts
<1>7. QED
  BY <1>1, <1>2, <1>3, <1>4, <1>5, <1>6 DEF CLINext

(* What was read for path j is what is asked for it.                       *)
LEMMA ResolvedAsAsked ==
  ASSUME pargs \in Seq(ParsedArg), GlobalsRead(pargs, Len(pargs), srch_opts),
         NEW pos, PathsRead(pargs, Len(pargs), paths, pos),
         NEW j \in 1 .. Len(pos), NEW o \in Options
  PROVE  Resolved(paths, srch_opts, j, o) = Asked(Locals(pos[j]), Globals, o, Default(o))
<1> DEFINE n == Len(pargs)
           L == Locals(pos[j])
<1>1. L = LocalsOf(pargs, pos[j]) /\ Globals = GlobalsOf(pargs)
  BY Zenon DEF Locals, LocalsOf, Globals, GlobalsOf, Paths, PathsOf
<1>2. n \in Nat /\ L \subseteq DOMAIN pargs /\ Globals \subseteq DOMAIN pargs /\ DOMAIN pargs = 1 .. n
  BY ArgFacts DEF Locals, Globals
<1>3. Upto(L, n) = L /\ Upto(Globals, n) = Globals
  <2>1. \A k \in DOMAIN pargs : k <= n
    BY <1>2
  <2> HIDE DEF L, n
  <2>2. QED
    BY <1>2, <2>1 DEF Upto
<1>4. \A S : Given(S, o) = GivenIn(pargs, S, o)
  BY Zenon DEF Given, GivenIn, SetsIt
<1>5. paths[j].srch_opts[o] = LocalIs(pargs, L, o) /\ srch_opts[o] = GlobalIs(pargs, Globals, o)
  <2>1. LocalsRead(pargs, n, pos[j], paths[j].srch_opts)
    BY DEF PathsRead
  <2>2. QED
    BY <1>1, <1>3, <2>1 DEF LocalsRead, GlobalsRead
<1> HIDE DEF L
<1>6. CASE Given(L, o) = {}
  <2>1. paths[j].srch_opts[o] = {}
    BY <1>4, <1>5, <1>6 DEF LocalIs
  <2>2. srch_opts[o] = IF Given(Globals, o) = {} THEN Default(o) ELSE Value(pargs[Max(Given(Globals, o))])
    BY <1>4, <1>5 DEF GlobalIs, LastIn
  <2>3. QED
    BY <1>6, <2>1, <2>2, Zenon DEF Resolved, Asked, L
<1>7. CASE Given(L, o) # {}
  <2>1. paths[j].srch_opts[o] = {Value(pargs[Max(Given(L, o))])}
    BY <1>4, <1>5, <1>7 DEF LocalIs, LastIn
  <2>2. \A v : (CHOOSE w \in {v} : TRUE) = v /\ {v} # {}
    OBVIOUS
  <2>3. QED
    BY <1>7, <2>1, <2>2, Zenon DEF Resolved, Asked, L
<1>8. QED
  BY <1>6, <1>7

(* So a path finds what it leads to.                                       *)
LEMMA FindsAsLeads ==
  ASSUME pargs \in Seq(ParsedArg), GlobalsRead(pargs, Len(pargs), srch_opts),
         NEW pos, PathsRead(pargs, Len(pargs), paths, pos),
         NEW j \in 1 .. Len(pos)
  PROVE  /\ Resolved(paths, srch_opts, j, "num_reads") = Reads(pos[j])
         /\ \A f : Finds(paths, srch_opts, j, f) <=> Leads(pos[j], f)
<1>1. \A o \in {"recurse", "probe", "ignore_audio", "ignore_video", "ignore_images"} :
        o \in Options /\ Resolved(paths, srch_opts, j, o) = Is(pos[j], o)
  <2>1. \A o \in {"recurse", "probe", "ignore_audio", "ignore_video", "ignore_images"} :
          o \in Options /\ Default(o) = FALSE
    BY DEF Options, SearchNames, Default
  <2>2. QED
    BY <2>1, ResolvedAsAsked DEF Is
<1>2. "num_reads" \in Options /\ Default("num_reads") = 1
  BY DEF Options, SearchNames, Default
<1>3. Resolved(paths, srch_opts, j, "num_reads") = Reads(pos[j])
  BY <1>2, ResolvedAsAsked DEF Reads
<1>4. paths[j].path = PathOf[pargs[pos[j]].value]
  BY DEF PathsRead
<1>5. ASSUME NEW f
      PROVE  Finds(paths, srch_opts, j, f) <=> Leads(pos[j], f)
  BY <1>1, <1>4 DEF Finds, Scope, Wanted, Leads
<1>6. QED
  BY <1>3, <1>5

(* The reads that found a file, at the end, are those that lead to it.     *)
LEMMA PlayedAsAsked ==
  ASSUME pargs \in Seq(ParsedArg), OptionsType, OptionsRead(pargs, Len(pargs), srch_opts, paths),
         SearchFacts, next > Len(paths), NEW f \in Tree, Places[f] = "file"
  PROVE  Cardinality(Plays(media_files, f)) =
           Cardinality(UNION { {p} \X (1 .. Reads(p)) : p \in { q \in Paths : Leads(q, f) } })
<1>1. PICK pos : PathsRead(pargs, Len(pargs), paths, pos)
  BY DEF OptionsRead
<1> DEFINE n == Len(paths)
           X == (1 .. n) \X (Nat \ {0})
           ahead == StillAhead(Resolved(paths, srch_opts, next, "recurse"), to_search, f)
           found == Found(paths, srch_opts, next, reads, ahead, f)
           asked == UNION { {p} \X (1 .. Reads(p)) : p \in { q \in Paths : Leads(q, f) } }
<1>2. n \in Nat /\ next = n + 1 /\ Len(pos) = n /\ pos \in Seq(Nat)
  BY <1>1 DEF OptionsType, SearchFacts, PathsRead
<1>3. /\ \A j \in 1 .. n : pos[j] \in Paths /\ pos[j] \in Nat
      /\ \A p \in Paths : \E j \in 1 .. n : pos[j] = p
      /\ \A i, j \in 1 .. n : i # j => pos[i] # pos[j]
  <2>1. Paths = PathsOf(pargs) /\ \A p \in PathsOf(pargs) : p <= Len(pargs)
    BY ArgFacts DEF Paths, PathsOf
  <2>2. \A j \in 1 .. n : pos[j] \in Nat
    BY <1>2
  <2>3. ASSUME NEW i \in 1 .. n, NEW j \in 1 .. n, i # j PROVE pos[i] # pos[j]
    <3>1. i < j \/ j < i
      BY <2>3
    <3>2. pos[i] < pos[j] \/ pos[j] < pos[i]
      BY <1>1, <1>2, <3>1 DEF PathsRead
    <3>3. QED
      BY <2>2, <3>2
  <2>4. QED
    BY <1>1, <1>2, <2>1, <2>2, <2>3 DEF PathsRead
<1>4. \A j \in 1 .. n : 
        /\ Reads(pos[j]) \in Int /\ Resolved(paths, srch_opts, j, "num_reads") = Reads(pos[j])
        /\ Finds(paths, srch_opts, j, f) <=> Leads(pos[j], f)
  BY <1>1, <1>2, FindsAsLeads, PathFacts DEF OptionsRead
<1>5. IsFiniteSet(found) /\ Cardinality(found) = Cardinality(Plays(media_files, f))
  BY Zenon DEF SearchFacts, Counted
<1>6. found = { x \in X : x[2] <= Reads(pos[x[1]]) /\ Leads(pos[x[1]], f) }
  <2>1. \A x \in X : x[1] \in 1 .. n /\ x[1] < n + 1
    BY <1>2
  <2>2. found = { x \in X : HasFound(paths, srch_opts, next, reads, ahead, f, x[1], x[2]) }
    BY DEF Found
  <2> HIDE DEF X, n, ahead, found
  <2>3. \A x \in X : HasFound(paths, srch_opts, next, reads, ahead, f, x[1], x[2])
                       <=> x[2] <= Reads(pos[x[1]]) /\ Leads(pos[x[1]], f)
    BY <1>2, <1>4, <2>1 DEF HasFound
  <2>4. QED
    BY <2>2, <2>3
<1>7. \A y : y \in asked <=> \E p \in Paths : \E r \in 1 .. Reads(p) : Leads(p, f) /\ y = <<p, r>>
  OBVIOUS
<1> DEFINE g == [x \in found |-> <<pos[x[1]], x[2]>>]
<1>8. \A x \in X : x[1] \in 1 .. n /\ x[2] \in Nat \ {0} /\ x = <<x[1], x[2]>>
  OBVIOUS
<1>9. \A j \in 1 .. n, r \in Nat \ {0} : <<j, r>> \in X /\ <<j, r>>[1] = j /\ <<j, r>>[2] = r
  OBVIOUS
<1> HIDE DEF X, n, found, asked
<1>10. \A x \in found : g[x] \in asked
  <2>1. SUFFICES ASSUME NEW x \in found PROVE <<pos[x[1]], x[2]>> \in asked
    OBVIOUS
  <2>2. x[1] \in 1 .. n /\ x[2] \in Nat \ {0} /\ x[2] <= Reads(pos[x[1]]) /\ Leads(pos[x[1]], f)
    BY <1>6, <1>8
  <2>3. pos[x[1]] \in Paths /\ x[2] \in 1 .. Reads(pos[x[1]])
    BY <1>3, <1>4, <2>2
  <2>4. QED
    BY <1>7, <2>2, <2>3
<1>11. \A x, y \in found : g[x] = g[y] => x = y
  <2>1. SUFFICES ASSUME NEW x \in found, NEW y \in found, pos[x[1]] = pos[y[1]], x[2] = y[2]
                 PROVE  x = y
    OBVIOUS
  <2>2. x \in X /\ y \in X
    BY <1>6
  <2>3. x[1] = y[1]
    BY <1>3, <1>8, <2>1, <2>2
  <2>4. QED
    BY <1>8, <2>1, <2>2, <2>3
<1>12. ASSUME NEW y \in asked
       PROVE  \E x \in found : g[x] = y
  <2>1. PICK p \in Paths : \E r \in 1 .. Reads(p) : Leads(p, f) /\ y = <<p, r>>
    BY <1>7
  <2>2. PICK r \in 1 .. Reads(p) : Leads(p, f) /\ y = <<p, r>>
    BY <2>1
  <2>3. PICK j \in 1 .. n : pos[j] = p
    BY <1>3
  <2>4. r \in Nat \ {0} /\ r <= Reads(p)
    BY <1>4, <2>3
  <2>5. <<j, r>> \in found
    BY <1>6, <1>9, <2>2, <2>3, <2>4
  <2>6. g[<<j, r>>] = <<p, r>>
    BY <1>9, <2>3, <2>4, <2>5
  <2>7. QED
    BY <2>2, <2>5, <2>6
<1>13. g \in Bijection(found, asked)
  <2>1. g \in [found -> asked]
    BY <1>10
  <2> HIDE DEF g
  <2>2. QED
    BY <1>11, <1>12, <2>1 DEF Bijection, Injection, Surjection, IsInjective
<1>14. Cardinality(asked) = Cardinality(found)
  BY <1>5, <1>13, FS_Bijection, Zenon DEF ExistsBijection
<1>15. QED
  BY <1>5, <1>14 DEF asked

CommandLineInv == ParserInv /\ OptionsInv /\ SearchInv

LEMMA CommandLineInvImplies == CommandLineInv => FilesAsAsked
<1> SUFFICES ASSUME CommandLineInv, cli = "playing", NEW f \in Tree, Places[f] = "file"
             PROVE  Cardinality(Plays(media_files, f)) =
                      Cardinality(UNION { {p} \X (1 .. Reads(p)) : p \in { q \in Paths : Leads(q, f) } })
  BY Zenon DEF FilesAsAsked, Plays, Tree
<1>1. pargs \in Seq(ParsedArg)
  BY DEF CommandLineInv, ParserInv, ParserType
<1>2. OptionsType /\ OptionsRead(pargs, Len(pargs), srch_opts, paths)
  BY DEF CommandLineInv, OptionsInv
<1>3. SearchFacts /\ next > Len(paths)
  BY DEF CommandLineInv, SearchInv
<1>4. QED
  BY <1>1, <1>2, <1>3, PlayedAsAsked

(* For every command line and every file system: a file is played once for *)
(* each read of each path that leads to it, with the options that are for  *)
(* that path (tmedia_cli.cpp 107-120, 548-725).                            *)
THEOREM FilesPlayed == CLISpec => []FilesAsAsked
<1>1. CLIInit => CommandLineInv
  <2>1. CLIInit => SearchInv
    BY DEF CLIInit, SearchInv
  <2>2. QED
    BY <2>1, ParserStart, OptionsStart DEF CommandLineInv
<1>2. CommandLineInv /\ [CLINext]_cliVars => CommandLineInv'
  BY ParserStep, OptionsStep, SearchStep DEF CommandLineInv
<1>3. QED
  BY <1>1, <1>2, CommandLineInvImplies, PTL DEF CLISpec
=============================================================================
