---------------------- MODULE BuilderStatementsProofs ----------------------
(***************************************************************************)
(* What holds of Builders between any two calls, and what toSql() writes   *)
(* for builders filled by any calls.  BuilderInv joins the two facts about *)
(* the builders that carry each other: TypeOK, which says that both are    *)
(* well-formed and every element can be rendered, and SetKeepsPlace, which *)
(* relates the list of assignments to the calls of set() that made it.     *)
(* What is written follows by induction over lists of renderers, which may *)
(* be of any length.  So does which values are bound: the same on every    *)
(* driver, those the caller gave, and no others.  What a renderer binds    *)
(* does not depend on the text, so that neither a free text short of       *)
(* values nor MSSQL's repeated subqueries need an exception there.         *)
(***************************************************************************)
EXTENDS BuilderStatements, SequenceTheorems, WellFoundedInduction, TLAPS

-----------------------------------------------------------------------------
(* The builders.                                                           *)

\* What the items of a part are, in a builder that embeds queries in Q.
Items(Q, part) ==
  CASE part \in {"ctes", "from", "sets"} -> Q
    [] part = "joins" -> Join(Q)
    [] part \in {"where", "having"} -> Element(Q)
    [] part = "free" -> Fragment
    [] part = "assign" -> Assignment
    [] part = "returning" -> Columns
Embeddable(b) == IF b = "outer" THEN InnerQuery ELSE {}

\* Replacing one part of a builder leaves the others.
LEMMA PartReplaced ==
  ASSUME NEW Q, NEW q \in Query(Q), NEW part \in Parts, NEW s \in Seq(Items(Q, part))
  PROVE  /\ [q EXCEPT ![part] = s] \in Query(Q)
         /\ [q EXCEPT ![part] = s][part] = s
         /\ \A other \in Parts \ {part} : [q EXCEPT ![part] = s][other] = q[other]
BY DEF Query, Parts, SelectParts, Items

\* A part is a list of its items.
LEMMA PartHasItems ==
  ASSUME NEW Q, NEW q \in Query(Q), NEW part \in Parts
  PROVE  q[part] \in Seq(Items(Q, part))
BY DEF Query, Parts, SelectParts, Items

\* Truth values as the values of a field, named to be left unexpanded: the
\* provers do not treat a formula as a value everywhere.
No == FALSE
Yes == TRUE
With(a, b) == a \/ b
CastToo(f, before) == [f EXCEPT !.cast = @ \/ before]

\* What With makes of them.
LEMMA TruthValues ==
  /\ No \in BOOLEAN /\ Yes \in BOOLEAN
  /\ \A b \in BOOLEAN : With(No, b) = b /\ With(Yes, b) = Yes
BY DEF No, Yes, With

\* An element with the fields given.
Made(compare, cast, json, value, values, subQuery) ==
  [compare |-> compare, cast |-> cast, json |-> json, value |-> value,
   values |-> values, subQuery |-> subQuery]

\* resetOperands() sets every operand to nothing and leaves the rest.
LEMMA ResetMakes ==
  ASSUME NEW Q, NEW e \in Element(Q)
  PROVE  Reset(e) = Made(e.compare, e.cast, No, Null, <<>>, <<>>)
<1> DEFINE r1 == [e EXCEPT !.value = Null]
           r2 == [r1 EXCEPT !.values = <<>>]
           r3 == [r2 EXCEPT !.subQuery = <<>>]
           r4 == [r3 EXCEPT !.json = No]
<1>1. Reset(e) = r4
  BY Zenon DEF Reset, No
<1>2. e = Made(e.compare, e.cast, e.json, e.value, e.values, e.subQuery)
  BY DEF Element, Made
<1>3. r1 = Made(e.compare, e.cast, e.json, Null, e.values, e.subQuery)
  BY <1>2 DEF Made
<1> HIDE DEF r1
<1>4. r2 = Made(e.compare, e.cast, e.json, Null, <<>>, e.subQuery)
  BY <1>3 DEF Made
<1> HIDE DEF r2
<1>5. r3 = Made(e.compare, e.cast, e.json, Null, <<>>, <<>>)
  BY <1>4 DEF Made
<1> HIDE DEF r3
<1>6. r4 = Made(e.compare, e.cast, No, Null, <<>>, <<>>)
  BY <1>5 DEF Made
<1> HIDE DEF r4
<1>7. QED
  BY <1>1, <1>6

\* What the comparator and its operands become, after a reset.
LEMMA ComparatorsMake ==
  ASSUME NEW Q, NEW e \in Element(Q), NEW c, NEW operand
  PROVE  /\ CompareValue(e, c, operand) = Made(c, e.cast, No, operand, <<>>, <<>>)
         /\ CompareList(e, c, operand) = Made(c, e.cast, No, Null, operand, <<>>)
         /\ CompareQuery(e, c, operand) = Made(c, e.cast, No, Null, <<>>, <<operand>>)
         /\ IsNull(e) = Made("IS NULL", e.cast, No, Null, <<>>, <<>>)
<1> DEFINE isNull == "IS NULL"
           reset == Reset(e)
           r == [reset EXCEPT !.compare = c]
<1>1. reset = Made(e.compare, e.cast, No, Null, <<>>, <<>>)
  BY ResetMakes
<1>2. /\ CompareValue(e, c, operand) = [r EXCEPT !.value = operand]
      /\ CompareList(e, c, operand) = [r EXCEPT !.values = operand]
      /\ CompareQuery(e, c, operand) = [r EXCEPT !.subQuery = <<operand>>]
      /\ IsNull(e) = [reset EXCEPT !.compare = isNull]
  BY Zenon DEF CompareValue, CompareList, CompareQuery, IsNull
<1> HIDE DEF isNull, reset
<1>3. r = Made(c, e.cast, No, Null, <<>>, <<>>)
  BY <1>1 DEF Made
<1>4. [reset EXCEPT !.compare = isNull]
        = Made(isNull, e.cast, No, Null, <<>>, <<>>)
  BY <1>1 DEF Made
<1> HIDE DEF r
<1>5. /\ [r EXCEPT !.value = operand] = Made(c, e.cast, No, operand, <<>>, <<>>)
      /\ [r EXCEPT !.values = operand] = Made(c, e.cast, No, Null, operand, <<>>)
      /\ [r EXCEPT !.subQuery = <<operand>>]
           = Made(c, e.cast, No, Null, <<>>, <<operand>>)
  BY <1>3 DEF Made
<1>6. QED
  BY <1>2, <1>4, <1>5, Zenon DEF isNull

\* What those with a second change make.
LEMMA CastsMake ==
  ASSUME NEW Q, NEW e \in Element(Q), NEW operand
  PROVE  /\ CompareJson(e, operand) = Made("=", e.cast, Yes, operand, <<>>, <<>>)
         /\ CastValue(e, operand) = Made("=", Yes, No, operand, <<>>, <<>>)
         /\ CastQuery(e, operand) = Made("=", Yes, No, Null, <<>>, <<operand>>)
<1> DEFINE byValue == CompareValue(e, "=", operand)
           byQuery == CompareQuery(e, "=", operand)
<1>1. /\ byValue = Made("=", e.cast, No, operand, <<>>, <<>>)
      /\ byQuery = Made("=", e.cast, No, Null, <<>>, <<operand>>)
  BY ComparatorsMake
<1>2. /\ CompareJson(e, operand) = [byValue EXCEPT !.json = Yes]
      /\ CastValue(e, operand) = [byValue EXCEPT !.cast = Yes]
      /\ CastQuery(e, operand) = [byQuery EXCEPT !.cast = Yes]
  BY Zenon DEF CompareJson, CastValue, CastQuery, Yes
<1> HIDE DEF byValue, byQuery
<1>3. /\ [byValue EXCEPT !.json = Yes] = Made("=", e.cast, Yes, operand, <<>>, <<>>)
      /\ [byValue EXCEPT !.cast = Yes] = Made("=", Yes, No, operand, <<>>, <<>>)
      /\ [byQuery EXCEPT !.cast = Yes] = Made("=", Yes, No, Null, <<>>, <<operand>>)
  BY <1>1 DEF Made
<1>4. QED
  BY <1>2, <1>3, Zenon

\* Operands that a comparator can be rendered with.
Given(Q, c, v, vs, s) ==
  /\ c \in {"=", "IS NULL", "IN", "BETWEEN", "DISTINCT", "EXISTS"}
  /\ v \in Operands
  /\ vs \in Seq(Operands)
  /\ s \in Seq(Q)
  /\ Len(s) <= 1
  /\ c = "EXISTS" => s # <<>>
  /\ c \in {"IS NULL", "BETWEEN"} => s = <<>>
  /\ c = "BETWEEN" => Len(vs) = 2

\* Those the comparators are called with are.
LEMMA OperandsGiven ==
  ASSUME NEW Q
  PROVE  /\ \A v \in Operands : Given(Q, "=", v, <<>>, <<>>) /\ Given(Q, "DISTINCT", v, <<>>, <<>>)
         /\ Given(Q, "=", Null, <<>>, <<>>)
         /\ Given(Q, "IS NULL", Null, <<>>, <<>>)
         /\ \A vs \in Seq(Operands) : Given(Q, "IN", Null, vs, <<>>)
         /\ \A v, w \in Operands : /\ Given(Q, "IN", Null, <<v, w>>, <<>>)
                                   /\ Given(Q, "BETWEEN", Null, <<v, w>>, <<>>)
         /\ \A q \in Q, c \in {"=", "IN", "DISTINCT", "EXISTS"} :
              Given(Q, c, Null, <<>>, <<q>>)
<1>1. /\ Null \in Operands
      /\ <<>> \in Seq(Operands) /\ <<>> \in Seq(Q) /\ Len(<<>>) = 0
      /\ \A v, w \in Operands : <<v, w>> \in Seq(Operands) /\ Len(<<v, w>>) = 2
      /\ \A q \in Q : <<q>> \in Seq(Q) /\ Len(<<q>>) = 1 /\ <<q>> # <<>>
  BY EmptySeq DEF Operands
<1>2. QED
  BY <1>1 DEF Given

\* Such an element has its type, and its operands can be read.
LEMMA MadeTyped ==
  ASSUME NEW Q, NEW c, NEW t \in BOOLEAN, NEW j \in BOOLEAN, NEW v, NEW vs, NEW s,
         Given(Q, c, v, vs, s)
  PROVE  Made(c, t, j, v, vs, s) \in Element(Q)
BY DEF Given, Made, Element, Readable

\* A cast that was asked for before is added to what a comparator makes of a
\* new element.
LEMMA CastAdded ==
  ASSUME NEW c, NEW t \in BOOLEAN, NEW j, NEW v, NEW vs, NEW s, NEW before \in BOOLEAN
  PROVE  CastToo(Made(c, t, j, v, vs, s), before)
           = Made(c, With(t, before), j, v, vs, s)
<1> DEFINE f == Made(c, t, j, v, vs, s)
           both == With(f.cast, before)
<1>1. f.cast = t
  BY DEF Made
<1>2. both = With(t, before)
  BY <1>1
<1> HIDE DEF both
<1>3. [f EXCEPT !.cast = both] = Made(c, both, j, v, vs, s)
  BY DEF Made
<1>4. QED
  BY <1>2, <1>3, Zenon DEF both, With, CastToo

\* A new element compares with nothing yet.
LEMMA ColumnMade ==
  /\ Column = Made("=", No, No, Null, <<>>, <<>>)
  /\ Column.cast = No
  /\ \A Q : Column \in Element(Q)
<1>1. Column = Made("=", No, No, Null, <<>>, <<>>) /\ Column.cast = No
  BY DEF Column, Made, No
<1>2. ASSUME NEW Q PROVE Column \in Element(Q)
  BY <1>1, TruthValues, OperandsGiven, MadeTyped, Zenon
<1>3. QED
  BY <1>1, <1>2

\* What a comparator has to make of e: an element that can be rendered, and
\* the one it makes of a new element, but for an earlier cast.
Fits(Q, e, m, f) ==
  /\ m \in Element(Q)
  /\ m = CastToo(f, e.cast)

\* Given such operands, what is made fits.
LEMMA MadeFits ==
  ASSUME NEW Q, NEW e \in Element(Q),
         NEW c, NEW j \in BOOLEAN, NEW v, NEW vs, NEW s, Given(Q, c, v, vs, s)
  PROVE  /\ Fits(Q, e, Made(c, e.cast, j, v, vs, s), Made(c, No, j, v, vs, s))
         /\ Fits(Q, e, Made(c, Yes, j, v, vs, s), Made(c, Yes, j, v, vs, s))
<1>1. e.cast \in BOOLEAN
  BY DEF Element
<1>2. /\ Made(c, e.cast, j, v, vs, s) \in Element(Q)
      /\ Made(c, Yes, j, v, vs, s) \in Element(Q)
  BY <1>1, TruthValues, MadeTyped
<1>3. ASSUME NEW t \in BOOLEAN
      PROVE  CastToo(Made(c, t, j, v, vs, s), e.cast)
               = Made(c, With(t, e.cast), j, v, vs, s)
  BY <1>1, CastAdded
<1>4. No \in BOOLEAN /\ Yes \in BOOLEAN /\ With(No, e.cast) = e.cast /\ With(Yes, e.cast) = Yes
  BY <1>1, TruthValues
<1>5. CastToo(Made(c, No, j, v, vs, s), e.cast)
        = Made(c, e.cast, j, v, vs, s)
  BY <1>3, <1>4, Zenon
<1>6. CastToo(Made(c, Yes, j, v, vs, s), e.cast)
        = Made(c, Yes, j, v, vs, s)
  BY <1>3, <1>4, Zenon
<1>7. QED
  BY <1>2, <1>5, <1>6, Zenon DEF Fits

\* Each comparator, with operands it can be rendered with, starts over.
LEMMA ComparatorFits ==
  ASSUME NEW Q, NEW e \in Element(Q), NEW c, NEW o
  PROVE  /\ Given(Q, c, o, <<>>, <<>>) =>
              Fits(Q, e, CompareValue(e, c, o), CompareValue(Column, c, o))
         /\ Given(Q, c, Null, o, <<>>) =>
              Fits(Q, e, CompareList(e, c, o), CompareList(Column, c, o))
         /\ Given(Q, c, Null, <<>>, <<o>>) =>
              Fits(Q, e, CompareQuery(e, c, o), CompareQuery(Column, c, o))
         /\ Given(Q, "IS NULL", Null, <<>>, <<>>) => Fits(Q, e, IsNull(e), IsNull(Column))
<1> Column \in Element(Q) /\ Column.cast = No
  BY ColumnMade
<1> USE TruthValues
<1>1. ASSUME Given(Q, c, o, <<>>, <<>>)
      PROVE  Fits(Q, e, CompareValue(e, c, o), CompareValue(Column, c, o))
  <2>1. /\ CompareValue(e, c, o) = Made(c, e.cast, No, o, <<>>, <<>>)
        /\ CompareValue(Column, c, o) = Made(c, No, No, o, <<>>, <<>>)
    BY ComparatorsMake
  <2>2. QED
    BY <1>1, <2>1, MadeFits
<1>2. ASSUME Given(Q, c, Null, o, <<>>)
      PROVE  Fits(Q, e, CompareList(e, c, o), CompareList(Column, c, o))
  <2>1. /\ CompareList(e, c, o) = Made(c, e.cast, No, Null, o, <<>>)
        /\ CompareList(Column, c, o) = Made(c, No, No, Null, o, <<>>)
    BY ComparatorsMake
  <2>2. QED
    BY <1>2, <2>1, MadeFits
<1>3. ASSUME Given(Q, c, Null, <<>>, <<o>>)
      PROVE  Fits(Q, e, CompareQuery(e, c, o), CompareQuery(Column, c, o))
  <2>1. /\ CompareQuery(e, c, o) = Made(c, e.cast, No, Null, <<>>, <<o>>)
        /\ CompareQuery(Column, c, o) = Made(c, No, No, Null, <<>>, <<o>>)
    BY ComparatorsMake
  <2>2. QED
    BY <1>3, <2>1, MadeFits
<1>4. ASSUME Given(Q, "IS NULL", Null, <<>>, <<>>)
      PROVE  Fits(Q, e, IsNull(e), IsNull(Column))
  <2>1. /\ IsNull(e) = Made("IS NULL", e.cast, No, Null, <<>>, <<>>)
        /\ IsNull(Column) = Made("IS NULL", No, No, Null, <<>>, <<>>)
    BY ComparatorsMake
  <2>2. QED
    BY <1>4, <2>1, MadeFits
<1>5. QED
  BY <1>1, <1>2, <1>3, <1>4

\* So do those that also make the element a JSON comparison or a cast.
LEMMA CastFits ==
  ASSUME NEW Q, NEW e \in Element(Q), NEW o
  PROVE  /\ Given(Q, "=", o, <<>>, <<>>) =>
              /\ Fits(Q, e, CompareJson(e, o), CompareJson(Column, o))
              /\ Fits(Q, e, CastValue(e, o), CastValue(Column, o))
         /\ Given(Q, "=", Null, <<>>, <<o>>) =>
              Fits(Q, e, CastQuery(e, o), CastQuery(Column, o))
<1> Column \in Element(Q) /\ Column.cast = No
  BY ColumnMade
<1> USE TruthValues
<1>1. ASSUME Given(Q, "=", o, <<>>, <<>>)
      PROVE  /\ Fits(Q, e, CompareJson(e, o), CompareJson(Column, o))
             /\ Fits(Q, e, CastValue(e, o), CastValue(Column, o))
  <2>1. /\ CompareJson(e, o) = Made("=", e.cast, Yes, o, <<>>, <<>>)
        /\ CompareJson(Column, o) = Made("=", No, Yes, o, <<>>, <<>>)
        /\ CastValue(e, o) = Made("=", Yes, No, o, <<>>, <<>>)
        /\ CastValue(Column, o) = Made("=", Yes, No, o, <<>>, <<>>)
    BY CastsMake
  <2>2. QED
    BY <1>1, <2>1, MadeFits
<1>2. ASSUME Given(Q, "=", Null, <<>>, <<o>>)
      PROVE  Fits(Q, e, CastQuery(e, o), CastQuery(Column, o))
  <2>1. /\ CastQuery(e, o) = Made("=", Yes, No, Null, <<>>, <<o>>)
        /\ CastQuery(Column, o) = Made("=", Yes, No, Null, <<>>, <<o>>)
    BY CastsMake
  <2>2. QED
    BY <1>2, <2>1, MadeFits
<1>3. QED
  BY <1>1, <1>2

\* The comparators with values, whatever was called on the element before.
LEMMA ValueCompared ==
  ASSUME NEW Q, NEW e \in Element(Q), NEW v \in Operands, NEW w \in Operands
  PROVE  \A m \in ByValue(e, v, w) : \E f \in ByValue(Column, v, w) : Fits(Q, e, m, f)
<1>1. <<>> \in Seq(Operands)
  BY EmptySeq
<1>2. /\ Fits(Q, e, CompareValue(e, "=", v), CompareValue(Column, "=", v))
      /\ Fits(Q, e, CompareValue(e, "DISTINCT", v), CompareValue(Column, "DISTINCT", v))
      /\ Fits(Q, e, CompareValue(e, "=", Null), CompareValue(Column, "=", Null))
  BY OperandsGiven, ComparatorFits
<1>3. /\ Fits(Q, e, CompareList(e, "IN", <<>>), CompareList(Column, "IN", <<>>))
      /\ Fits(Q, e, CompareList(e, "IN", <<v, w>>), CompareList(Column, "IN", <<v, w>>))
      /\ Fits(Q, e, CompareList(e, "BETWEEN", <<v, w>>),
                    CompareList(Column, "BETWEEN", <<v, w>>))
  BY <1>1, OperandsGiven, ComparatorFits
<1>4. Fits(Q, e, IsNull(e), IsNull(Column))
  BY OperandsGiven, ComparatorFits
<1>5. /\ Fits(Q, e, CompareJson(e, v), CompareJson(Column, v))
      /\ Fits(Q, e, CastValue(e, v), CastValue(Column, v))
  BY OperandsGiven, CastFits
<1>6. QED
  BY <1>2, <1>3, <1>4, <1>5 DEF ByValue

\* Those with a query.
LEMMA QueryCompared ==
  ASSUME NEW Q, NEW e \in Element(Q), NEW q \in Q
  PROVE  \A m \in ByQuery(e, q) : \E f \in ByQuery(Column, q) : Fits(Q, e, m, f)
<1>1. ASSUME NEW c \in {"=", "IN", "DISTINCT", "EXISTS"}
      PROVE  Fits(Q, e, CompareQuery(e, c, q), CompareQuery(Column, c, q))
  BY OperandsGiven, ComparatorFits
<1>2. Fits(Q, e, CastQuery(e, q), CastQuery(Column, q))
  BY OperandsGiven, CastFits
<1>3. QED
  BY <1>1, <1>2 DEF ByQuery

-----------------------------------------------------------------------------
(* The two builders.                                                       *)

\* Every operation replaces one part of one builder.  It keeps the types if
\* the class has that part and the new list holds what belongs there.
LEMMA PartSet ==
  ASSUME TypeOK, NEW b \in Names, NEW part \in Parts, Offers(b, part),
         NEW s \in Seq(Items(Embeddable(b), part)),
         builder' = [builder EXCEPT ![b][part] = s],
         kind' = kind, assigned' \in Seq(Assignment)
  PROVE  /\ TypeOK'
         /\ builder'[b][part] = s
         /\ \A other \in Parts \ {part} : builder'[b][other] = builder[b][other]
         /\ \A c \in Names \ {b} : builder'[c] = builder[c]
<1>1. /\ builder[b] \in Query(Embeddable(b))
      /\ DOMAIN builder = Names
      /\ DOMAIN builder[b] = Parts
  BY DEF TypeOK, Names, Embeddable, InnerQuery, Query, Parts, SelectParts
<1>2. /\ builder'[b] = [builder[b] EXCEPT ![part] = s]
      /\ \A c \in Names \ {b} : builder'[c] = builder[c]
  BY <1>1
<1>3. /\ builder'[b] \in Query(Embeddable(b))
      /\ builder'[b][part] = s
      /\ \A other \in Parts \ {part} : builder'[b][other] = builder[b][other]
  BY <1>1, <1>2, PartReplaced
<1>4. builder' \in [inner : InnerQuery, outer : Query(InnerQuery)]
  BY <1>2, <1>3 DEF TypeOK, Names, Embeddable, InnerQuery
<1>5. \A other \in Parts \ Has[kind] : builder'["outer"][other] = <<>>
  BY <1>2, <1>3 DEF TypeOK, Names, Outer, Offers
<1>6. QED
  BY <1>2, <1>3, <1>4, <1>5 DEF TypeOK, Outer

\* ComparatorsStartOver, of one step.
StepStartsOver ==
  \A b \in Names, part \in {"where", "having"} :
    \A i \in DOMAIN builder[b][part] :
      LET e == builder[b][part][i]
          made == builder'[b][part][i]
          v(k) == Operand(b, part, i, k)
          fresh == ByValue(Column, v(1), v(2)) \cup ByQuery(Column, Inner)
      IN  made # e =>
            \E f \in fresh : made = [f EXCEPT !.cast = @ \/ e.cast]

\* No element has been replaced.
ElementsKept ==
  \A b \in Names, part \in {"where", "having"} :
    \A i \in DOMAIN builder[b][part] : builder'[b][part][i] = builder[b][part][i]

AssignmentsKept == UNCHANGED <<builder["outer"].assign, assigned>>

\* Adding an item leaves those there are.
LEMMA ItemAdded ==
  ASSUME TypeOK, NEW b \in Names, NEW part \in Parts \ {"assign"},
         NEW item \in Items(Embeddable(b), part),
         Adds(b, part, item)
  PROVE  TypeOK' /\ ElementsKept /\ AssignmentsKept
<1> DEFINE s == builder[b][part]
           t == Append(s, item)
<1>1. builder[b] \in Query(Embeddable(b))
  BY DEF TypeOK, Names, Embeddable, InnerQuery
<1>2. s \in Seq(Items(Embeddable(b), part))
  BY <1>1, PartHasItems
<1>3. /\ Offers(b, part)
      /\ builder' = [builder EXCEPT ![b][part] = t]
      /\ kind' = kind /\ assigned' = assigned
  BY DEF Adds
<1> HIDE DEF s
<1>4. /\ t \in Seq(Items(Embeddable(b), part))
      /\ DOMAIN s \subseteq DOMAIN t
      /\ \A i \in DOMAIN s : t[i] = s[i]
      /\ \A i \in DOMAIN t : i \in DOMAIN s \/ t[i] = item
  BY <1>2
<1> HIDE DEF t
<1>5. assigned' \in Seq(Assignment)
  BY <1>3 DEF TypeOK
<1>6. /\ TypeOK'
      /\ builder'[b][part] = t
      /\ \A other \in Parts \ {part} : builder'[b][other] = builder[b][other]
      /\ \A c \in Names \ {b} : builder'[c] = builder[c]
  BY <1>3, <1>4, <1>5, PartSet
<1>7. ElementsKept
  BY <1>4, <1>6 DEF ElementsKept, Parts, SelectParts, s
<1>8. builder'["outer"]["assign"] = builder["outer"]["assign"]
  BY <1>6 DEF Parts, Names
<1>9. QED
  BY <1>3, <1>6, <1>7, <1>8 DEF AssignmentsKept

\* from...() and returning() replace the part as a whole.
LEMMA PartReset ==
  ASSUME TypeOK, NEW part \in {"from", "returning"}, Offers("outer", part),
         NEW s \in Seq(Items(InnerQuery, part)),
         builder' = [builder EXCEPT !["outer"][part] = s],
         UNCHANGED <<kind, assigned>>
  PROVE  TypeOK' /\ ElementsKept /\ AssignmentsKept
<1>1. /\ part \in Parts /\ "outer" \in Names /\ Embeddable("outer") = InnerQuery
      /\ assigned' \in Seq(Assignment)
  BY DEF Parts, SelectParts, Names, Embeddable, TypeOK
<1>2. /\ TypeOK'
      /\ \A other \in Parts \ {part} : builder'["outer"][other] = builder["outer"][other]
      /\ \A c \in Names \ {"outer"} : builder'[c] = builder[c]
  BY <1>1, PartSet
<1>3. ElementsKept
  BY <1>2 DEF ElementsKept, Parts, SelectParts, Names
<1>4. builder'["outer"]["assign"] = builder["outer"]["assign"]
  BY <1>2 DEF Parts
<1>5. QED
  BY <1>2, <1>3, <1>4 DEF AssignmentsKept

\* A comparator replaces the last element of a chain by one that starts over.
LEMMA ElementCompared ==
  ASSUME TypeOK, NEW b \in Names, NEW part \in {"where", "having"},
         NEW n, n = Len(builder[b][part]), n > 0,
         NEW v, v = Operand(b, part, n, 1), NEW w, w = Operand(b, part, n, 2),
         NEW m \in ByValue(builder[b][part][n], v, w)
                     \cup (IF b = "outer" THEN ByQuery(builder[b][part][n], Inner) ELSE {}),
         builder' = [builder EXCEPT ![b][part][n] = m],
         UNCHANGED <<kind, assigned>>
  PROVE  TypeOK' /\ StepStartsOver /\ AssignmentsKept
<1> DEFINE s == builder[b][part]
           t == [s EXCEPT ![n] = m]
           Q == Embeddable(b)
<1>1. /\ part \in Parts
      /\ builder[b] \in Query(Q)
      /\ DOMAIN builder = Names /\ DOMAIN builder[b] = Parts
  BY DEF TypeOK, Names, Embeddable, InnerQuery, Query, Parts, SelectParts
<1>2. /\ s \in Seq(Items(Q, part))
      /\ Items(Q, part) = Element(Q)
  BY <1>1, PartHasItems DEF Items
<1>3. n \in 1..Len(s) /\ s[n] \in Element(Q)
  BY <1>2
<1>4. v \in Operands /\ w \in Operands
  BY <1>1, <1>3 DEF Operand, Operands
<1>5. PICK f \in ByValue(Column, v, w) \cup ByQuery(Column, Inner) : Fits(Q, s[n], m, f)
  <2>1. CASE m \in ByValue(s[n], v, w)
    BY <1>3, <1>4, <2>1, ValueCompared
  <2>2. CASE b = "outer" /\ m \in ByQuery(s[n], Inner)
    <3>1. Inner \in Q
      BY <2>2 DEF TypeOK, Inner, Embeddable
    <3>2. QED
      BY <1>3, <2>2, <3>1, QueryCompared
  <2>3. QED
    BY <2>1, <2>2
<1>6. Offers(b, part)
  <2>1. b = "outer" => builder["outer"][part] # <<>>
    BY <1>3
  <2>2. QED
    BY <1>1, <2>1 DEF TypeOK, Offers, Names, Outer
<1>7. builder' = [builder EXCEPT ![b][part] = t]
  BY <1>1
<1> HIDE DEF s
<1>8. /\ t \in Seq(Items(Q, part))
      /\ DOMAIN t = DOMAIN s
      /\ t[n] = m
      /\ \A i \in DOMAIN s \ {n} : t[i] = s[i]
  BY <1>2, <1>3, <1>5, ExceptSeq DEF Fits
<1> HIDE DEF t
<1>9. /\ TypeOK'
       /\ builder'[b][part] = t
       /\ \A other \in Parts \ {part} : builder'[b][other] = builder[b][other]
       /\ \A c \in Names \ {b} : builder'[c] = builder[c]
  <2>1. assigned' \in Seq(Assignment) /\ kind' = kind
    BY DEF TypeOK
  <2>2. t \in Seq(Items(Embeddable(b), part))
    BY <1>8
  <2>3. QED
    BY ONLY TypeOK, b \in Names, <1>1, <1>6, <1>7, <2>1, <2>2, PartSet
<1>10. StepStartsOver
  <2> SUFFICES ASSUME NEW c \in Names, NEW p \in {"where", "having"},
                      NEW i \in DOMAIN builder[c][p],
                      builder'[c][p][i] # builder[c][p][i]
               PROVE  \E g \in ByValue(Column, Operand(c, p, i, 1), Operand(c, p, i, 2))
                                 \cup ByQuery(Column, Inner) :
                        builder'[c][p][i] = [g EXCEPT !.cast = @ \/ builder[c][p][i].cast]
    BY DEF StepStartsOver
  <2>1. c = b /\ p = part /\ i = n
    BY <1>8, <1>9 DEF Parts, SelectParts, s
  <2>2. m = [f EXCEPT !.cast = @ \/ s[n].cast]
    BY <1>5, Zenon DEF Fits, CastToo
  <2>3. builder'[c][p][i] = m /\ s[n] = builder[c][p][i]
    BY <1>8, <1>9, <2>1 DEF s
  <2>4. f \in ByValue(Column, Operand(c, p, i, 1), Operand(c, p, i, 2))
                \cup ByQuery(Column, Inner)
    BY <1>5, <2>1
  <2>5. QED
    BY <2>2, <2>3, <2>4, Zenon
<1>11. builder'["outer"]["assign"] = builder["outer"]["assign"]
  BY <1>9 DEF Parts, Names
<1>12. QED
  BY <1>9, <1>10, <1>11 DEF AssignmentsKept

-----------------------------------------------------------------------------
(* set().                                                                  *)

\* SetKeepsPlace, of the list set() made and the calls it was made by.
InPlace(list, calls) ==
  LET of(column) == {i \in DOMAIN calls : calls[i].column = column}
  IN  /\ {a.column : a \in ToSet(list)} = {a.column : a \in ToSet(calls)}
      /\ \A i \in DOMAIN list :
           /\ \E last \in of(list[i].column) :
                /\ list[i] = calls[last]
                /\ \A n \in of(list[i].column) : n <= last
           /\ \A j \in 1..(i - 1) :
                \E first \in of(list[j].column) :
                  \A n \in of(list[i].column) : first < n

\* A new column goes to the end of the list, as its only call does.
LEMMA NewColumnInPlace ==
  ASSUME NEW list \in Seq(Assignment), NEW calls \in Seq(Assignment),
         InPlace(list, calls), NEW entry \in Assignment,
         \A i \in DOMAIN list : list[i].column # entry.column
  PROVE  InPlace(Append(list, entry), Append(calls, entry))
<1> DEFINE list2 == Append(list, entry)
           calls2 == Append(calls, entry)
           of(column) == {i \in DOMAIN calls : calls[i].column = column}
           of2(column) == {i \in DOMAIN calls2 : calls2[i].column = column}
<1>1. /\ Len(list) \in Nat /\ DOMAIN list = 1..Len(list)
      /\ DOMAIN list2 = 1..(Len(list) + 1) /\ list2[Len(list) + 1] = entry
      /\ \A i \in DOMAIN list : list2[i] = list[i]
  OBVIOUS
<1>2. /\ Len(calls) \in Nat /\ DOMAIN calls = 1..Len(calls)
      /\ DOMAIN calls2 = 1..(Len(calls) + 1) /\ calls2[Len(calls) + 1] = entry
      /\ \A i \in DOMAIN calls : calls2[i] = calls[i]
  OBVIOUS
<1> HIDE DEF list2, calls2
<1>3. {a.column : a \in ToSet(list)} = {a.column : a \in ToSet(calls)}
  BY DEF InPlace
<1>4. \A i \in DOMAIN calls : calls[i].column # entry.column
  BY <1>3 DEF ToSet
<1>5. {a.column : a \in ToSet(list2)} = {a.column : a \in ToSet(calls2)}
  <2>1. {a.column : a \in ToSet(list2)} = {a.column : a \in ToSet(list)} \cup {entry.column}
    BY <1>1 DEF ToSet
  <2>2. {a.column : a \in ToSet(calls2)} = {a.column : a \in ToSet(calls)} \cup {entry.column}
    BY <1>2 DEF ToSet
  <2>3. QED
    BY <1>3, <2>1, <2>2
<1>6. /\ \A i \in DOMAIN list : of2(list[i].column) = of(list[i].column)
      /\ of2(entry.column) = {Len(calls) + 1}
  BY <1>2, <1>4
<1>7. ASSUME NEW i \in DOMAIN list2
      PROVE  /\ \E last \in of2(list2[i].column) :
                  /\ list2[i] = calls2[last]
                  /\ \A n \in of2(list2[i].column) : n <= last
             /\ \A j \in 1..(i - 1) :
                  \E first \in of2(list2[j].column) :
                    \A n \in of2(list2[i].column) : first < n
  <2>1. CASE i \in DOMAIN list
    <3>1. /\ \E last \in of(list[i].column) :
               /\ list[i] = calls[last]
               /\ \A n \in of(list[i].column) : n <= last
          /\ \A j \in 1..(i - 1) :
               \E first \in of(list[j].column) :
                 \A n \in of(list[i].column) : first < n
      BY <2>1 DEF InPlace
    <3>2. \A j \in 1..(i - 1) : j \in DOMAIN list
      BY <1>1, <2>1
    <3>3. ASSUME NEW k \in DOMAIN list
          PROVE  list2[k] = list[k] /\ of2(list2[k].column) = of(list[k].column)
      BY <1>1, <1>6
    <3>4. \A last \in of(list[i].column) : calls2[last] = calls[last]
      BY <1>2
    <3> HIDE DEF of, of2
    <3>5. QED
      BY <2>1, <3>1, <3>2, <3>3, <3>4
  <2>2. CASE i = Len(list) + 1
    <3>1. list2[i] = entry /\ of2(list2[i].column) = {Len(calls) + 1}
      BY <1>1, <1>6, <2>2
    <3>2. ASSUME NEW j \in 1..(i - 1)
          PROVE  \E first \in of2(list2[j].column) : first < Len(calls) + 1
      <4>1. j \in DOMAIN list
        BY <1>1, <2>2
      <4>2. PICK first \in of(list[j].column) : TRUE
        BY <4>1 DEF InPlace
      <4>3. QED
        BY <1>1, <1>2, <1>6, <4>1, <4>2
    <3>3. QED
      BY <1>2, <3>1, <3>2
  <2>3. QED
    BY <1>1, <2>1, <2>2
<1>8. QED
  BY <1>5, <1>7 DEF InPlace, list2, calls2

\* A column set before gets the new value where it stands.
LEMMA OldColumnInPlace ==
  ASSUME NEW list \in Seq(Assignment), NEW calls \in Seq(Assignment),
         InPlace(list, calls), NEW entry \in Assignment,
         NEW p \in DOMAIN list, list[p].column = entry.column
  PROVE  InPlace([list EXCEPT ![p] = entry], Append(calls, entry))
<1> DEFINE list2 == [list EXCEPT ![p] = entry]
           calls2 == Append(calls, entry)
           of(column) == {i \in DOMAIN calls : calls[i].column = column}
           of2(column) == {i \in DOMAIN calls2 : calls2[i].column = column}
<1>1. /\ Len(list) \in Nat /\ DOMAIN list = 1..Len(list)
      /\ DOMAIN list2 = DOMAIN list /\ list2[p] = entry
      /\ \A i \in DOMAIN list \ {p} : list2[i] = list[i]
  OBVIOUS
<1>2. /\ Len(calls) \in Nat /\ DOMAIN calls = 1..Len(calls)
      /\ DOMAIN calls2 = 1..(Len(calls) + 1) /\ calls2[Len(calls) + 1] = entry
      /\ \A i \in DOMAIN calls : calls2[i] = calls[i]
  OBVIOUS
<1> HIDE DEF list2, calls2
<1>3. \A i \in DOMAIN list : list2[i].column = list[i].column
  BY <1>1
<1>4. {a.column : a \in ToSet(list2)} = {a.column : a \in ToSet(calls2)}
  <2>1. {a.column : a \in ToSet(list)} = {a.column : a \in ToSet(calls)}
    BY DEF InPlace
  <2>2. {a.column : a \in ToSet(list2)} = {a.column : a \in ToSet(list)}
    BY <1>1, <1>3 DEF ToSet
  <2>3. {a.column : a \in ToSet(calls2)} = {a.column : a \in ToSet(calls)} \cup {entry.column}
    BY <1>2 DEF ToSet
  <2>4. entry.column \in {a.column : a \in ToSet(list)}
    BY DEF ToSet
  <2>5. QED
    BY <2>1, <2>2, <2>3, <2>4
<1>5. /\ of2(entry.column) = of(entry.column) \cup {Len(calls) + 1}
      /\ \A c : c # entry.column => of2(c) = of(c)
  BY <1>2
<1>6. ASSUME NEW i \in DOMAIN list, NEW j \in DOMAIN list, i # j
      PROVE  list[i].column # list[j].column
  <2>1. ASSUME NEW k \in DOMAIN list, NEW l \in 1..(k - 1)
        PROVE  list[k].column # list[l].column
    <3>1. PICK first \in of(list[l].column) : \A n \in of(list[k].column) : first < n
      BY DEF InPlace
    <3>2. first \in Nat
      BY <1>2
    <3>3. QED
      BY <3>1, <3>2
  <2>2. i \in 1..(j - 1) \/ j \in 1..(i - 1)
    BY <1>1, <1>6
  <2>3. QED
    BY <2>1, <2>2
<1>7. ASSUME NEW i \in DOMAIN list2
      PROVE  /\ \E last \in of2(list2[i].column) :
                  /\ list2[i] = calls2[last]
                  /\ \A n \in of2(list2[i].column) : n <= last
             /\ \A j \in 1..(i - 1) :
                  \E first \in of2(list2[j].column) :
                    \A n \in of2(list2[i].column) : first < n
  <2>1. i \in DOMAIN list
    BY <1>1
  <2>2. PICK last \in of(list[i].column) :
          /\ list[i] = calls[last]
          /\ \A n \in of(list[i].column) : n <= last
    BY <2>1 DEF InPlace
  <2>3. \E last2 \in of2(list2[i].column) :
          /\ list2[i] = calls2[last2]
          /\ \A n \in of2(list2[i].column) : n <= last2
    <3>1. CASE i = p
      BY <1>1, <1>2, <1>5, <3>1
    <3>2. CASE i # p
      <4>1. list2[i] = list[i] /\ list[i].column # entry.column
        BY <1>1, <1>6, <2>1, <3>2
      <4>2. of2(list2[i].column) = of(list[i].column)
        BY <1>2, <4>1
      <4>3. QED
        BY <1>2, <2>2, <4>1, <4>2
    <3>3. QED
      BY <3>1, <3>2
  <2>4. ASSUME NEW j \in 1..(i - 1)
        PROVE  \E first \in of2(list2[j].column) :
                 \A n \in of2(list2[i].column) : first < n
    <3>1. j \in DOMAIN list /\ list2[j].column = list[j].column
      BY <1>1, <1>3, <2>1
    <3>2. PICK first \in of(list[j].column) : \A n \in of(list[i].column) : first < n
      BY <2>1 DEF InPlace
    <3>3. first \in 1..Len(calls)
      BY <1>2
    <3>4. first \in of2(list2[j].column)
      BY <1>2, <3>1, <3>2
    <3>5. \A n \in of2(list2[i].column) : n \in of(list[i].column) \/ n = Len(calls) + 1
      BY <1>2, <1>3, <2>1
    <3>6. QED
      BY <1>2, <3>2, <3>3, <3>4, <3>5
  <2>5. QED
    BY <2>3, <2>4
<1>8. QED
  BY <1>4, <1>7 DEF InPlace, list2, calls2

\* So set() keeps both, whether the column was set before or not.
LEMMA ColumnSet ==
  ASSUME TypeOK, SetKeepsPlace, NEW column \in Columns, SetColumn(column)
  PROVE  TypeOK' /\ ElementsKept /\ SetKeepsPlace'
<1> DEFINE entry == [column |-> column,
                     value |-> Operand("outer", "assign", Len(assigned) + 1, 1)]
           list == builder["outer"]["assign"]
           places == {i \in DOMAIN list : list[i].column = column}
           p == CHOOSE i \in places : TRUE
           list2 == IF places = {} THEN Append(list, entry) ELSE [list EXCEPT ![p] = entry]
<1>1. /\ Offers("outer", "assign")
      /\ builder' = [builder EXCEPT !["outer"]["assign"] = list2]
      /\ assigned' = Append(assigned, entry)
      /\ kind' = kind
  BY DEF SetColumn, Puts, Outer
<1>2. /\ assigned \in Seq(Assignment)
      /\ list \in Seq(Assignment)
      /\ InPlace(list, assigned)
  BY DEF TypeOK, Query, SetKeepsPlace, InPlace, Outer, ColumnsSet, Calls
<1>3. entry \in Assignment
  <2>1. Operand("outer", "assign", Len(assigned) + 1, 1) \in Operands
    BY <1>2 DEF Operand, Operands, Names, Parts
  <2>2. QED
    BY <2>1 DEF Assignment
<1>4. entry.column = column
  OBVIOUS
<1> HIDE DEF entry, list
<1>5. list2 \in Seq(Assignment) /\ InPlace(list2, Append(assigned, entry))
  <2>1. CASE places = {}
    <3>1. \A i \in DOMAIN list : list[i].column # entry.column
      BY <1>4, <2>1
    <3>2. QED
      BY <1>2, <1>3, <2>1, <3>1, NewColumnInPlace
  <2>2. CASE places # {}
    <3>1. p \in DOMAIN list /\ list[p].column = entry.column
      BY <1>4, <2>2
    <3> HIDE DEF p
    <3>2. [list EXCEPT ![p] = entry] \in Seq(Assignment)
      BY <1>2, <1>3, <3>1, LenProperties, ExceptSeq
    <3>3. QED
      BY <1>2, <1>3, <2>2, <3>1, <3>2, OldColumnInPlace
  <2>3. QED
    BY <2>1, <2>2
<1> HIDE DEF list2
<1>6. /\ "assign" \in Parts /\ "outer" \in Names
      /\ Items(Embeddable("outer"), "assign") = Assignment
      /\ assigned' \in Seq(Assignment)
  BY <1>1, <1>2, <1>3 DEF Parts, Names, Items
<1>7. /\ TypeOK'
      /\ builder'["outer"]["assign"] = list2
      /\ \A other \in Parts \ {"assign"} : builder'["outer"][other] = builder["outer"][other]
      /\ \A c \in Names \ {"outer"} : builder'[c] = builder[c]
  BY <1>1, <1>5, <1>6, PartSet
<1>8. ElementsKept
  BY <1>7 DEF ElementsKept, Parts, SelectParts, Names
<1>9. InPlace(builder'["outer"]["assign"], assigned')
  BY <1>1, <1>5, <1>7
<1>10. SetKeepsPlace'
  BY <1>9 DEF SetKeepsPlace, InPlace, Outer, ColumnsSet, Calls
<1>11. QED
  BY <1>7, <1>8, <1>10

-----------------------------------------------------------------------------
(* Any call.                                                               *)

\* What holds of the two builders between any two calls.
BuilderInv == TypeOK /\ SetKeepsPlace

\* What touches neither the list nor the calls leaves SetKeepsPlace.
LEMMA AssignmentsInPlace ==
  ASSUME SetKeepsPlace, AssignmentsKept PROVE SetKeepsPlace'
BY DEF SetKeepsPlace, AssignmentsKept, Outer, ColumnsSet, Calls

\* A call that replaces no element makes no comparator start over.
LEMMA KeptStartsOver == ElementsKept => StepStartsOver
BY DEF ElementsKept, StepStartsOver

\* Each call keeps the invariant, and each comparator starts over.
LEMMA AnyCall ==
  ASSUME BuilderInv, Next
  PROVE  BuilderInv' /\ StepStartsOver
<1> USE DEF BuilderInv
<1>1. ASSUME NEW part \in {"where", "having"}, AddElement("outer", part)
      PROVE  TypeOK' /\ ElementsKept /\ AssignmentsKept
  <2>1. /\ part \in Parts \ {"assign"} /\ "outer" \in Names
        /\ Column \in Items(Embeddable("outer"), part)
    BY ColumnMade DEF Parts, SelectParts, Names, Items
  <2>2. QED
    BY <1>1, <2>1, ItemAdded DEF AddElement
<1>2. ASSUME AddElement("inner", "where")
      PROVE  TypeOK' /\ ElementsKept /\ AssignmentsKept
  <2>1. /\ "where" \in Parts \ {"assign"} /\ "inner" \in Names
        /\ Column \in Items(Embeddable("inner"), "where")
    BY ColumnMade DEF Parts, SelectParts, Names, Items
  <2>2. QED
    BY <1>2, <2>1, ItemAdded DEF AddElement
<1>3. ASSUME NEW part \in {"where", "having"}, Compare(part)
      PROVE  TypeOK' /\ StepStartsOver /\ AssignmentsKept
  <2> DEFINE n == Len(builder["outer"][part])
             v == Operand("outer", part, n, 1)
             w == Operand("outer", part, n, 2)
  <2>1. PICK m \in ByValue(builder["outer"][part][n], v, w)
                     \cup ByQuery(builder["outer"][part][n], Inner) :
          builder' = [builder EXCEPT !["outer"][part][n] = m]
    BY <1>3 DEF Compare, Compares
  <2>2. n > 0 /\ "outer" \in Names /\ UNCHANGED <<kind, assigned>>
    BY <1>3 DEF Compare, Compares, Names
  <2>3. QED
    BY <2>1, <2>2, ElementCompared
<1>4. ASSUME CompareInner
      PROVE  TypeOK' /\ StepStartsOver /\ AssignmentsKept
  <2> DEFINE n == Len(builder["inner"]["where"])
             v == Operand("inner", "where", n, 1)
             w == Operand("inner", "where", n, 2)
  <2>1. PICK m \in ByValue(builder["inner"]["where"][n], v, w) :
          builder' = [builder EXCEPT !["inner"]["where"][n] = m]
    BY <1>4 DEF CompareInner, Compares, ByValue
  <2>2. n > 0 /\ "inner" \in Names /\ UNCHANGED <<kind, assigned>>
    BY <1>4 DEF CompareInner, Compares, Names
  <2>3. QED
    BY <2>1, <2>2, ElementCompared
<1>5. ASSUME NEW b \in Names, NEW marks \in 1..2, NEW k \in 1..2, AddFreeText(b, marks, k)
      PROVE  TypeOK' /\ ElementsKept /\ AssignmentsKept
  <2> DEFINE values == [i \in 1..k |-> Operand(b, "free", Len(builder[b].free) + 1, i)]
  <2>1. builder[b].free \in Seq(Fragment)
    BY DEF TypeOK, Query, InnerQuery, Names
  <2>2. \A i \in 1..k : Operand(b, "free", Len(builder[b].free) + 1, i) \in Operands
    BY <2>1 DEF Operand, Operands, Parts, SelectParts
  <2>3. values \in Seq(Operands)
    BY <2>2
  <2> HIDE DEF values
  <2>4. /\ "free" \in Parts \ {"assign"}
        /\ [marks |-> marks, values |-> values] \in Items(Embeddable(b), "free")
    BY <2>3 DEF Parts, SelectParts, Items, Fragment
  <2>5. Adds(b, "free", [marks |-> marks, values |-> values])
    BY <1>5 DEF AddFreeText, values
  <2>6. QED
    BY <2>4, <2>5, ItemAdded
<1>6. Inner \in InnerQuery
  BY DEF TypeOK, Inner
<1>7. ASSUME NEW part \in {"ctes", "sets"}, Embed(part)
      PROVE  TypeOK' /\ ElementsKept /\ AssignmentsKept
  <2>1. /\ part \in Parts \ {"assign"} /\ "outer" \in Names
        /\ Inner \in Items(Embeddable("outer"), part)
    BY <1>6 DEF Parts, SelectParts, Names, Items, Embeddable
  <2>2. QED
    BY <1>7, <2>1, ItemAdded DEF Embed
<1>8. ASSUME NEW source \in {<<Inner>>, <<>>}, From(source)
      PROVE  TypeOK' /\ ElementsKept /\ AssignmentsKept
  <2>1. <<Inner>> \in Seq(InnerQuery) /\ <<>> \in Seq(InnerQuery)
    BY <1>6, EmptySeq
  <2>2. source \in Seq(Items(InnerQuery, "from"))
    BY <2>1 DEF Items
  <2>3. QED
    BY <1>8, <2>2, PartReset DEF From
<1>9. ASSUME NEW cross \in BOOLEAN, NEW on \in BOOLEAN, NEW asSubQuery \in BOOLEAN,
             AddJoin(cross, on, asSubQuery)
      PROVE  TypeOK' /\ ElementsKept /\ AssignmentsKept
  <2> DEFINE join == [cross |-> cross, on |-> on, asSubQuery |-> asSubQuery,
                      query |-> Inner]
  <2>1. /\ "joins" \in Parts \ {"assign"} /\ "outer" \in Names
        /\ join \in Items(Embeddable("outer"), "joins")
    BY <1>6 DEF Parts, SelectParts, Names, Items, Embeddable, Join
  <2>2. Adds("outer", "joins", join)
    BY <1>9, Zenon DEF AddJoin
  <2>3. QED
    BY <2>1, <2>2, ItemAdded
<1>10. ASSUME NEW columns \in {<<>>, <<Column1>>, <<Column1, Column2>>}, Returning(columns)
       PROVE  TypeOK' /\ ElementsKept /\ AssignmentsKept
  <2>1. Column1 \in Columns /\ Column2 \in Columns
    BY DEF Columns
  <2>2. \A c, d \in Columns : <<c>> \in Seq(Columns) /\ <<c, d>> \in Seq(Columns)
    OBVIOUS
  <2>3. <<>> \in Seq(Columns)
    BY EmptySeq
  <2>4. columns \in Seq(Columns)
    BY <2>1, <2>2, <2>3
  <2>5. Items(InnerQuery, "returning") = Columns
    BY DEF Items
  <2>6. QED
    BY <1>10, <2>4, <2>5, PartReset DEF Returning
<1>11. ASSUME NEW column \in Columns, SetColumn(column)
       PROVE  BuilderInv' /\ StepStartsOver
  BY <1>11, ColumnSet, KeptStartsOver
<1>12. QED
  BY <1>1, <1>2, <1>3, <1>4, <1>5, <1>7, <1>8, <1>9, <1>10, <1>11, AssignmentsInPlace,
     KeptStartsOver DEF Next

\* toSql() in between changes nothing.
LEMMA NoCall == ASSUME BuilderInv, UNCHANGED vars PROVE BuilderInv'
<1>1. kind' = kind /\ builder' = builder /\ assigned' = assigned
  BY DEF vars
<1>2. TypeOK'
  BY <1>1 DEF BuilderInv, TypeOK, Outer
<1>3. AssignmentsKept
  BY <1>1 DEF AssignmentsKept, Outer
<1>4. QED
  BY <1>2, <1>3, AssignmentsInPlace DEF BuilderInv

\* Nothing has been called on the two builders to begin with.
LEMMA NewBuilders == Init => BuilderInv
<1> SUFFICES ASSUME Init PROVE BuilderInv
  OBVIOUS
<1>1. /\ EmptyQuery \in InnerQuery /\ EmptyQuery \in Query(InnerQuery)
      /\ <<>> \in Seq(Assignment)
      /\ \A part \in Parts : EmptyQuery[part] = <<>>
  BY EmptySeq DEF EmptyQuery, InnerQuery, Query, Parts, SelectParts
<1>2. /\ builder \in [inner : InnerQuery, outer : Query(InnerQuery)]
      /\ \A b \in Names : builder[b] = EmptyQuery
  BY <1>1 DEF Init, Names
<1>3. TypeOK
  BY <1>1, <1>2 DEF Init, TypeOK, Outer, Names, Elements, ToSet, Parts, SelectParts
<1>4. SetKeepsPlace
  BY <1>1, <1>2 DEF Init, SetKeepsPlace, Outer, Names, Parts, ColumnsSet, Calls, ToSet
<1>5. QED
  BY <1>3, <1>4 DEF BuilderInv

\* Between any two calls, both hold.
THEOREM BuilderInvariance == Spec => []BuilderInv
<1>1. BuilderInv /\ [Next]_vars => BuilderInv'
  BY AnyCall, NoCall
<1>2. QED
  BY <1>1, NewBuilders, PTL DEF Spec

\* No sequence of calls leaves an element whose operands toSql() would read in
\* vain, embeds a query in an embedded query, or fills a part the class has not.
THEOREM TypeCorrect == Spec => []TypeOK
<1>1. BuilderInv => TypeOK
  BY DEF BuilderInv
<1>2. QED
  BY <1>1, BuilderInvariance, PTL

\* set() called any number of times, for the columns in any order.
THEOREM AssignmentsKeepPlace == Spec => []SetKeepsPlace
<1>1. BuilderInv => SetKeepsPlace
  BY DEF BuilderInv
<1>2. QED
  BY <1>1, BuilderInvariance, PTL

\* Whatever was called on an element before, a comparator makes of it what it
\* makes of a new one, but for an earlier cast().
THEOREM ComparatorsReset == Spec => ComparatorsStartOver
<1>1. BuilderInv /\ [Next]_vars => [StepStartsOver]_vars
  BY AnyCall
<1>2. QED
  BY <1>1, BuilderInvariance, PTL DEF Spec, ComparatorsStartOver, StepStartsOver

-----------------------------------------------------------------------------
(* Induction.                                                              *)

\* The natural numbers are well-founded.
LEMMA LessThanWellFounded == IsWellFoundedOn({p \in Nat \X Nat : p[1] < p[2]}, Nat)
<1> DEFINE R == {p \in Nat \X Nat : p[1] < p[2]}
<1>1. R = OpToRel(<, Nat)
  BY DEF OpToRel
<1> QED BY <1>1, NatLessThanWellFounded

\* Induction, of a set: one that has 0, and with every number the next, has
\* all of them.
LEMMA Induction ==
  ASSUME NEW T, 0 \in T, \A n \in Nat : n \in T => n + 1 \in T
  PROVE  \A n \in Nat : n \in T
<1> DEFINE R == {p \in Nat \X Nat : p[1] < p[2]}
           U == Nat \ T
<1>1. SUFFICES ASSUME U # {} PROVE FALSE
  OBVIOUS
<1>2. IsWellFoundedOn(R, Nat) BY LessThanWellFounded
<1>3. U \subseteq Nat OBVIOUS
<1>4. \E x \in U : \A y \in U : ~(<<y, x>> \in R)
  <2> HIDE DEF U, R
  <2> QED BY <1>1, <1>2, <1>3, WFMin, Zenon
<1>5. PICK x \in U : \A y \in U : ~(<<y, x>> \in R) BY <1>4
<1>6. x # 0 /\ x - 1 \in Nat OBVIOUS
<1>7. x - 1 \in U BY <1>6
<1>8. <<x - 1, x>> \in R BY <1>6
<1> QED BY <1>5, <1>7, <1>8

-----------------------------------------------------------------------------
(* RenderAll.                                                              *)

\* f has what is rendered after the first n renderers, n up to N.
AreStages(f, renderers, params, N) ==
  f = [n \in 0..N |-> IF n = 0 THEN Nothing(params) ELSE Then(f[n - 1], renderers[n])]

Stages(renderers, params) ==
  CHOOSE f : AreStages(f, renderers, params, Len(renderers))

\* There is a function as the one RenderAll defines by recursion.
LEMMA StagesExist ==
  ASSUME NEW renderers, NEW params, NEW N \in Nat
  PROVE  \E f : AreStages(f, renderers, params, N)
<1> DEFINE base == Nothing(params)
           next(before, n) == Then(before, renderers[n])
           IsIt(f, m) == f = [n \in 0..m |-> IF n = 0 THEN base ELSE next(f[n - 1], n)]
           T == {m \in Nat : \E f : IsIt(f, m)}
<1> HIDE DEF base, next
<1>1. 0 \in T
  <2>1. IsIt([n \in 0..0 |-> base], 0) OBVIOUS
  <2> QED BY <2>1
<1>2. ASSUME NEW m \in Nat, m \in T PROVE m + 1 \in T
  <2>1. PICK f : IsIt(f, m) BY <1>2
  <2>2. ASSUME NEW n \in 0..m
        PROVE  f[n] = IF n = 0 THEN base ELSE next(f[n - 1], n)
    <3> DEFINE F == [k \in 0..m |-> IF k = 0 THEN base ELSE next(f[k - 1], k)]
    <3>1. F[n] = IF n = 0 THEN base ELSE next(f[n - 1], n) OBVIOUS
    <3>2. f = F BY <2>1
    <3> QED BY <3>1, <3>2, Zenon
  <2> DEFINE g == [n \in 0..(m + 1) |-> IF n = m + 1 THEN next(f[n - 1], n) ELSE f[n]]
             h == [n \in 0..(m + 1) |-> IF n = 0 THEN base ELSE next(g[n - 1], n)]
  <2>3. ASSUME NEW n \in 0..(m + 1) PROVE g[n] = h[n]
    <3>0. g[n] = IF n = m + 1 THEN next(f[n - 1], n) ELSE f[n] OBVIOUS
    <3>1. h[n] = IF n = 0 THEN base ELSE next(g[n - 1], n) OBVIOUS
    <3>2. CASE n = 0
      BY <3>2, <3>0, <3>1, <2>2
    <3>3. CASE n \in 1..(m + 1)
      <4>1. n - 1 \in 0..(m + 1) /\ n - 1 # m + 1 /\ n # 0 BY <3>3
      <4>2. g[n - 1] = f[n - 1] BY <4>1
      <4>3. h[n] = next(f[n - 1], n) BY <4>1, <4>2, <3>1
      <4>4. n # m + 1 => n \in 0..m BY <3>3
      <4>5. g[n] = next(f[n - 1], n) BY <4>1, <4>4, <3>0, <2>2
      <4> QED BY <4>3, <4>5
    <3> QED BY <3>2, <3>3
  <2>4. g = h
    <3>1. \A n \in 0..(m + 1) : g[n] = h[n] BY <2>3
    <3> QED BY <3>1
  <2>5. IsIt(g, m + 1) BY <2>4
  <2>6. \E e : IsIt(e, m + 1) BY <2>5, Zenon
  <2>7. m + 1 \in Nat OBVIOUS
  <2> QED BY <2>6, <2>7, Zenon
<1>3. N \in T
  <2> HIDE DEF T
  <2> QED BY <1>1, <1>2, Induction
<1>4. PICK f : IsIt(f, N) BY <1>3
<1>5. AreStages(f, renderers, params, N) BY <1>4 DEF base, next, AreStages
<1> QED BY <1>5

\* What it is then.
LEMMA StagesAre ==
  ASSUME NEW renderers, NEW params, Len(renderers) \in Nat
  PROVE  /\ RenderAll(renderers, params) = Stages(renderers, params)[Len(renderers)]
         /\ Stages(renderers, params)[0] = Nothing(params)
         /\ \A n \in 1..Len(renderers) :
              Stages(renderers, params)[n] =
                Then(Stages(renderers, params)[n - 1], renderers[n])
<1> DEFINE s == Stages(renderers, params)
           F == [n \in 0..Len(renderers) |->
                   IF n = 0 THEN Nothing(params) ELSE Then(s[n - 1], renderers[n])]
<1>1. \E f : AreStages(f, renderers, params, Len(renderers)) BY StagesExist
<1>2. s = F
  <2>1. AreStages(s, renderers, params, Len(renderers)) BY <1>1 DEF Stages
  <2> QED BY <2>1 DEF AreStages
<1>3. RenderAll(renderers, params) = s[Len(renderers)]
  BY DEF RenderAll, Stages, AreStages
<1>4. \A n \in 0..Len(renderers) :
        F[n] = IF n = 0 THEN Nothing(params) ELSE Then(s[n - 1], renderers[n])
  OBVIOUS
<1> HIDE DEF s, F
<1>5. \A n \in 0..Len(renderers) :
        s[n] = IF n = 0 THEN Nothing(params) ELSE Then(s[n - 1], renderers[n])
  BY <1>2, <1>4, Zenon
<1>6. s[0] = Nothing(params) BY <1>5
<1>7. \A n \in 1..Len(renderers) : s[n] = Then(s[n - 1], renderers[n]) BY <1>5
<1> QED BY <1>3, <1>6, <1>7 DEF s

-----------------------------------------------------------------------------
(* Texts and values bound.                                                 *)

Placeholder == [position : Nat, operand : Operands]
Rendering == [text : Seq(Placeholder), params : Params]
OperandsOf(text) == [i \in DOMAIN text |-> text[i].operand]

\* Every numbered placeholder names its operand.
Named(r) ==
  \A i \in DOMAIN r.text : r.text[i].position > 0 =>
    /\ r.text[i].position \in DOMAIN r.params
    /\ r.params[r.text[i].position] = r.text[i].operand

\* What was rendered with the values of p bound before has its operands bound:
\* those the placeholders name, or those of the placeholders in turn.
Sound(r, d, p) ==
  /\ r \in Rendering
  /\ d \in Numbered => Named(r)
  /\ d \notin Numbered => r.params = p \o OperandsOf(r.text)

\* A renderer does so for all p, and binds the same whatever was bound before.
Own(f) == f[<<>>].params
Renders(f, d) ==
  /\ f \in [Params -> Rendering]
  /\ \A p \in Params : Sound(f[p], d, p) /\ f[p].params = p \o Own(f)

\* The operands of a text.
LEMMA OperandsTyped ==
  ASSUME NEW text \in Seq(Placeholder)
  PROVE  /\ OperandsOf(text) \in Params
         /\ Len(OperandsOf(text)) = Len(text)
         /\ \A i \in 1..Len(text) : OperandsOf(text)[i] = text[i].operand
<1>1. DOMAIN text = 1..Len(text) /\ Len(text) \in Nat
  OBVIOUS
<1>2. \A i \in 1..Len(text) : text[i].operand \in Operands
  <2> SUFFICES ASSUME NEW i \in 1..Len(text) PROVE text[i].operand \in Operands
    OBVIOUS
  <2>1. text[i] \in Placeholder BY ElementOfSeq
  <2> QED BY <2>1 DEF Placeholder
<1>3. OperandsOf(text) \in [1..Len(text) -> Operands]
  BY <1>1, <1>2 DEF OperandsOf
<1> QED BY <1>1, <1>3 DEF Params, OperandsOf

\* Those of two texts, one after the other.
LEMMA OperandsConcat ==
  ASSUME NEW s \in Seq(Placeholder), NEW t \in Seq(Placeholder)
  PROVE  OperandsOf(s \o t) = OperandsOf(s) \o OperandsOf(t)
<1> DEFINE a == OperandsOf(s \o t)
           b == OperandsOf(s) \o OperandsOf(t)
<1>1. s \o t \in Seq(Placeholder) /\ Len(s \o t) = Len(s) + Len(t)
  OBVIOUS
<1>2. /\ a \in Seq(Operands) /\ Len(a) = Len(s) + Len(t)
      /\ \A i \in 1..(Len(s) + Len(t)) : a[i] = (s \o t)[i].operand
  BY <1>1, OperandsTyped DEF Params
<1>3. /\ b \in Seq(Operands) /\ Len(b) = Len(s) + Len(t)
      /\ \A i \in 1..(Len(s) + Len(t)) :
           b[i] = IF i <= Len(s) THEN OperandsOf(s)[i] ELSE OperandsOf(t)[i - Len(s)]
  <2> DEFINE u == OperandsOf(s)
             w == OperandsOf(t)
  <2>1. /\ u \in Seq(Operands) /\ Len(u) = Len(s)
        /\ w \in Seq(Operands) /\ Len(w) = Len(t)
    BY OperandsTyped DEF Params
  <2> HIDE DEF u, w
  <2>2. /\ u \o w \in Seq(Operands) /\ Len(u \o w) = Len(u) + Len(w)
        /\ \A i \in 1..(Len(u) + Len(w)) :
             (u \o w)[i] = IF i <= Len(u) THEN u[i] ELSE w[i - Len(u)]
    BY <2>1, ConcatProperties
  <2> QED BY <2>1, <2>2 DEF u, w
<1>4. \A i \in 1..Len(a) : a[i] = b[i]
  <2> SUFFICES ASSUME NEW i \in 1..(Len(s) + Len(t)) PROVE a[i] = b[i]
    BY <1>2
  <2>1. a[i] = (s \o t)[i].operand BY <1>2
  <2>2. CASE i <= Len(s)
    <3>1. (s \o t)[i] = s[i] /\ i \in 1..Len(s) BY <2>2
    <3> QED BY <2>1, <2>2, <3>1, <1>3, OperandsTyped
  <2>3. CASE i > Len(s)
    <3>1. (s \o t)[i] = t[i - Len(s)] /\ i - Len(s) \in 1..Len(t) /\ ~(i <= Len(s)) BY <2>3
    <3>2. OperandsOf(t)[i - Len(s)] = t[i - Len(s)].operand BY <3>1, OperandsTyped
    <3> QED BY <2>1, <3>1, <3>2, <1>3
  <2>4. i <= Len(s) \/ i > Len(s)
    <3>1. Len(s) \in Nat /\ Len(t) \in Nat OBVIOUS
    <3> QED BY <3>1
  <2> HIDE DEF a, b
  <2> QED BY <2>2, <2>3, <2>4
<1> HIDE DEF a, b
<1> QED BY <1>2, <1>3, <1>4, SeqEqual DEF a, b

\* Rendering nothing.
LEMMA NothingSound ==
  ASSUME NEW d, NEW p \in Params
  PROVE  Sound(Nothing(p), d, p)
<1>1. <<>> \in Seq(Placeholder) BY EmptySeq
<1>2. OperandsOf(<<>>) = <<>> BY DEF OperandsOf
<1>3. p \o <<>> = p BY ConcatEmptySeq DEF Params
<1> DEFINE r == Nothing(p)
<1>4. r.text = <<>> /\ r.params = p BY DEF Nothing
<1>5. r \in Rendering BY <1>1 DEF Nothing, Rendering
<1>6. DOMAIN <<>> = {} OBVIOUS
<1>7. Named(r) BY <1>4, <1>6 DEF Named
<1> HIDE DEF r
<1>8. Sound(r, d, p) BY <1>2, <1>3, <1>4, <1>5, <1>7 DEF Sound
<1> QED BY <1>8 DEF r

\* One thing rendered after what was before.
LEMMA ThenSound ==
  ASSUME NEW d, NEW f, Renders(f, d), NEW p \in Params,
         NEW before, Sound(before, d, p)
  PROVE  /\ Sound(Then(before, f), d, p)
         /\ Then(before, f).params = before.params \o Own(f)
<1> DEFINE this == f[before.params]
           after == Then(before, f)
<1>1. before \in Rendering /\ before.params \in Params /\ before.text \in Seq(Placeholder)
  BY DEF Sound, Rendering
<1>2. /\ Sound(this, d, before.params) /\ this \in Rendering
      /\ this.params = before.params \o Own(f)
      /\ this.params \in Params /\ this.text \in Seq(Placeholder)
  BY <1>1 DEF Renders, Sound, Rendering
<1>3. after = [text |-> before.text \o this.text, params |-> this.params]
  BY DEF Then
<1> HIDE DEF after, this
<1>t. after.text = before.text \o this.text /\ after.params = this.params
  BY <1>3
<1>n. /\ Len(before.text) \in Nat /\ DOMAIN before.text = 1..Len(before.text)
      /\ Len(this.text) \in Nat /\ DOMAIN this.text = 1..Len(this.text)
  <2>1. \A u \in Seq(Placeholder) : Len(u) \in Nat /\ DOMAIN u = 1..Len(u) OBVIOUS
  <2> QED BY <2>1, <1>1, <1>2
<1>l. /\ after.text \in Seq(Placeholder) /\ after.params \in Params
      /\ DOMAIN after.text = 1..Len(after.text)
      /\ Len(after.text) = Len(before.text) + Len(this.text)
      /\ \A i \in 1..Len(before.text) : after.text[i] = before.text[i]
      /\ \A i \in (Len(before.text) + 1)..Len(after.text) :
           after.text[i] = this.text[i - Len(before.text)]
  <2> DEFINE u == before.text
             w == this.text
  <2>1. u \in Seq(Placeholder) /\ w \in Seq(Placeholder) BY <1>1, <1>2
  <2>2. after.text = u \o w /\ after.params \in Params BY <1>2, <1>t
  <2> HIDE DEF u, w
  <2>3. /\ u \o w \in Seq(Placeholder) /\ Len(u \o w) = Len(u) + Len(w)
        /\ \A i \in 1..(Len(u) + Len(w)) :
             (u \o w)[i] = IF i <= Len(u) THEN u[i] ELSE w[i - Len(u)]
    BY <2>1, ConcatProperties
  <2>d. DOMAIN (u \o w) = 1..Len(u \o w) BY <2>3
  <2>4. Len(u) \in Nat /\ Len(w) \in Nat BY <2>1
  <2>5. \A i \in 1..Len(u) : (u \o w)[i] = u[i] BY <2>3, <2>4
  <2>6. \A i \in (Len(u) + 1)..(Len(u) + Len(w)) : (u \o w)[i] = w[i - Len(u)]
    BY <2>3, <2>4
  <2> QED BY <2>2, <2>3, <2>d, <2>5, <2>6 DEF u, w
<1>4. after \in Rendering
  BY <1>3, <1>l, <1>t DEF Rendering
<1>0. Own(f) \in Params
  <2>1. <<>> \in Params BY EmptySeq DEF Params
  <2> QED BY <2>1 DEF Own, Renders, Rendering
<1>5. ASSUME d \in Numbered PROVE Named(after)
  <2>1. Named(before) /\ Named(this) BY <1>2, <1>5 DEF Sound
  <2>2. SUFFICES ASSUME NEW i \in 1..Len(after.text), after.text[i].position > 0
                 PROVE  /\ after.text[i].position \in DOMAIN after.params
                        /\ after.params[after.text[i].position] = after.text[i].operand
    <3>1. DOMAIN after.text = 1..Len(after.text) BY <1>l
    <3> QED BY <3>1 DEF Named
  <2>3. CASE i <= Len(before.text)
    <3>1. after.text[i] = before.text[i] /\ i \in DOMAIN before.text
      BY <1>1, <1>l, <2>3
    <3>2. /\ before.text[i].position \in 1..Len(before.params)
          /\ before.params[before.text[i].position] = before.text[i].operand
      BY <1>1, <2>1, <2>2, <3>1 DEF Named, Params
    <3>3. \A k \in 1..Len(before.params) :
            k \in DOMAIN after.params /\ after.params[k] = before.params[k]
      BY <1>0, <1>1, <1>2, <1>t DEF Params
    <3> QED BY <2>2, <3>1, <3>2, <3>3
  <2>4. CASE i > Len(before.text)
    <3>1. /\ after.text[i] = this.text[i - Len(before.text)]
          /\ i - Len(before.text) \in DOMAIN this.text
      <4> DEFINE k == Len(before.text)
                 m == Len(this.text)
      <4>1. Len(after.text) = k + m /\ i \in 1..(k + m) BY <1>l
      <4>2. k \in Nat /\ m \in Nat BY <1>n
      <4> HIDE DEF k, m
      <4>3. i > k BY <2>4 DEF k
      <4>4. i \in (k + 1)..(k + m) /\ i - k \in 1..m BY <4>1, <4>2, <4>3
      <4>5. after.text[i] = this.text[i - k] BY <4>1, <4>4, <1>l DEF k, m
      <4> QED BY <1>n, <4>4, <4>5 DEF k, m
    <3> QED BY <1>t, <2>1, <2>2, <3>1 DEF Named
  <2>5. Len(before.text) \in Nat BY <1>1
  <2> QED BY <2>3, <2>4, <2>5
<1>6. ASSUME d \notin Numbered PROVE after.params = p \o OperandsOf(after.text)
  <2> DEFINE u == OperandsOf(before.text)
             w == OperandsOf(this.text)
  <2>1. before.params = p \o u /\ this.params = before.params \o w
    BY <1>2, <1>6 DEF Sound
  <2>2. u \in Params /\ w \in Params BY <1>1, <1>2, OperandsTyped
  <2>3. (p \o u) \o w = p \o (u \o w)
    BY <2>2, ConcatAssociative DEF Params
  <2>4. OperandsOf(after.text) = u \o w
    BY <1>1, <1>2, <1>t, OperandsConcat
  <2> HIDE DEF u, w
  <2> QED BY <1>t, <2>1, <2>3, <2>4
<1>7. after.params = before.params \o Own(f) BY <1>2, <1>t
<1>8. Sound(after, d, p) BY <1>4, <1>5, <1>6 DEF Sound
<1> QED BY <1>7, <1>8 DEF after

\* Any number of them: RenderAll is a renderer as good as those it is given.
LEMMA RenderAllSound ==
  ASSUME NEW d, NEW renderers, Len(renderers) \in Nat,
         \A i \in 1..Len(renderers) : Renders(renderers[i], d)
  PROVE  Renders([p \in Params |-> RenderAll(renderers, p)], d)
<1> DEFINE N == Len(renderers)
           At(p, n) == Stages(renderers, p)[n]
           T == {n \in Nat : n <= N => \A p \in Params :
                   Sound(At(p, n), d, p) /\ At(p, n).params = p \o At(<<>>, n).params}
<1>e. <<>> \in Params BY EmptySeq DEF Params
<1>1. \A p \in Params :
        /\ RenderAll(renderers, p) = At(p, N)
        /\ At(p, 0) = Nothing(p)
        /\ \A n \in 1..N : At(p, n) = Then(At(p, n - 1), renderers[n])
  BY StagesAre
<1> HIDE DEF At
<1>2. 0 \in T
  <2>1. ASSUME NEW p \in Params
        PROVE  Sound(At(p, 0), d, p) /\ At(p, 0).params = p \o At(<<>>, 0).params
    <3>1. At(p, 0).params = p /\ At(<<>>, 0).params = <<>> BY <1>1, <1>e DEF Nothing
    <3>2. p \o <<>> = p BY ConcatEmptySeq DEF Params
    <3> QED BY <1>1, <3>1, <3>2, NothingSound
  <2> QED BY <2>1
<1>3. ASSUME NEW n \in Nat, n \in T PROVE n + 1 \in T
  <2>1. SUFFICES ASSUME n + 1 <= N, NEW p \in Params
                 PROVE  /\ Sound(At(p, n + 1), d, p)
                        /\ At(p, n + 1).params = p \o At(<<>>, n + 1).params
    OBVIOUS
  <2>2. n <= N /\ n + 1 \in 1..N /\ (n + 1) - 1 = n BY <2>1
  <2> DEFINE f == renderers[n + 1]
             u == At(<<>>, n).params
             a == At(p, n)
             b == At(<<>>, n)
  <2>3. Renders(f, d) BY <2>2
  <2>4. /\ Sound(At(p, n), d, p) /\ At(p, n).params = p \o u
        /\ Sound(At(<<>>, n), d, <<>>)
    BY <1>3, <2>2, <1>e
  <2>5. At(p, n + 1) = Then(At(p, n), f) /\ At(<<>>, n + 1) = Then(At(<<>>, n), f)
    BY <1>1, <1>e, <2>2
  <2>6. Sound(At(p, n + 1), d, p) /\ At(p, n + 1).params = (p \o u) \o Own(f)
    <3>1. Sound(a, d, p) BY <2>4
    <3> HIDE DEF a, f, u
    <3>2. Sound(Then(a, f), d, p) /\ Then(a, f).params = a.params \o Own(f)
      BY <2>3, <3>1, ThenSound
    <3> QED BY <3>2, <2>4, <2>5 DEF a, f
  <2>7. At(<<>>, n + 1).params = u \o Own(f)
    <3>1. Sound(b, d, <<>>) BY <2>4
    <3> HIDE DEF b, f
    <3>2. Then(b, f).params = b.params \o Own(f)
      BY <1>e, <2>3, <3>1, ThenSound
    <3> QED BY <3>2, <2>5 DEF b, f
  <2>8. u \in Params /\ Own(f) \in Params
    BY <1>e, <2>3, <2>4 DEF Sound, Rendering, Renders, Own
  <2>9. (p \o u) \o Own(f) = p \o (u \o Own(f))
    <3> DEFINE w == Own(f)
    <3>1. w \in Seq(Operands) /\ u \in Seq(Operands) /\ p \in Seq(Operands) BY <2>8 DEF Params
    <3> HIDE DEF w, u
    <3>2. (p \o u) \o w = p \o (u \o w) BY <3>1, ConcatAssociative
    <3> QED BY <3>2 DEF w
  <2> QED BY <2>6, <2>7, <2>9
<1>4. N \in T
  <2> HIDE DEF T, N
  <2>1. N \in Nat BY DEF N
  <2> QED BY <1>2, <1>3, <2>1, Induction
<1>5. \A p \in Params :
        Sound(RenderAll(renderers, p), d, p)
          /\ RenderAll(renderers, p).params = p \o RenderAll(renderers, <<>>).params
  <2>1. \A p \in Params : Sound(At(p, N), d, p) /\ At(p, N).params = p \o At(<<>>, N).params
    BY <1>4
  <2>2. RenderAll(renderers, <<>>) = At(<<>>, N) BY <1>1, <1>e
  <2> HIDE DEF N
  <2> QED BY <1>1, <2>1, <2>2
<1> DEFINE g == [p \in Params |-> RenderAll(renderers, p)]
<1>6. \A p \in Params : g[p] = RenderAll(renderers, p) OBVIOUS
<1>7. g \in [Params -> Rendering] BY <1>5 DEF Sound
<1> HIDE DEF g
<1>8. Renders(g, d) BY <1>5, <1>6, <1>7, <1>e DEF Renders, Own
<1> QED BY <1>8 DEF g

-----------------------------------------------------------------------------
(* The renderers.                                                          *)

\* It is enough to know what a renderer binds.
LEMMA RendersWhen ==
  ASSUME NEW d, NEW w \in Params, NEW f, f = [p \in Params |-> f[p]],
         \A p \in Params : Sound(f[p], d, p) /\ f[p].params = p \o w
  PROVE  Renders(f, d) /\ Own(f) = w
<1>1. \A p \in Params : f[p] \in Rendering BY DEF Sound
<1>2. f \in [Params -> Rendering] BY <1>1
<1>3. <<>> \in Params BY EmptySeq DEF Params
<1>4. <<>> \o w = w BY ConcatEmptySeq DEF Params
<1>5. Own(f) = w BY <1>3, <1>4 DEF Own
<1> QED BY <1>2, <1>5 DEF Renders

\* bind().
LEMMA BindSound ==
  ASSUME NEW d, NEW v \in Operands, NEW p \in Params
  PROVE  Sound(Bind(v, p), d, p) /\ Bind(v, p).params = p \o <<v>>
<1> DEFINE one == [position |-> Len(p) + 1, operand |-> v]
           r == Bind(v, p)
<1>1. one \in Placeholder BY DEF Placeholder, Params
<1>2. r.text = <<one>> /\ r.params = Append(p, v) BY DEF Bind
<1>3. /\ Append(p, v) \in Params /\ Len(Append(p, v)) = Len(p) + 1
      /\ DOMAIN Append(p, v) = 1..(Len(p) + 1)
      /\ Append(p, v)[Len(p) + 1] = v
      /\ Append(p, v) = p \o <<v>>
  BY AppendProperties, AppendIsConcat DEF Params
<1>4. <<one>> \in Seq(Placeholder) /\ DOMAIN <<one>> = {1} /\ <<one>>[1] = one
  <2> HIDE DEF one
  <2> QED BY <1>1
<1>5. r \in Rendering BY <1>3, <1>4 DEF Rendering, Bind
<1>6. Named(r)
  <2>1. one.position = Len(p) + 1 /\ one.operand = v OBVIOUS
  <2>2. Len(p) + 1 \in 1..(Len(p) + 1) BY DEF Params
  <2> HIDE DEF one, r
  <2> QED BY <1>2, <1>3, <1>4, <2>1, <2>2 DEF Named
<1>7. OperandsOf(r.text) = <<v>>
  <2> DEFINE a == OperandsOf(<<one>>)
  <2>1. Len(<<one>>) = 1 OBVIOUS
  <2>2. one.operand = v OBVIOUS
  <2>3. a \in Seq(Operands) /\ Len(a) = 1 /\ a[1] = v
    <3> DEFINE t == <<one>>
    <3>1. t \in Seq(Placeholder) /\ Len(t) = 1 /\ t[1].operand = v BY <1>4, <2>1, <2>2
    <3> HIDE DEF t
    <3>2. /\ OperandsOf(t) \in Params /\ Len(OperandsOf(t)) = Len(t)
          /\ OperandsOf(t)[1] = t[1].operand
      BY <3>1, OperandsTyped
    <3> QED BY <3>1, <3>2 DEF t, Params
  <2>4. <<v>> \in Seq(Operands) /\ Len(<<v>>) = 1 /\ <<v>>[1] = v OBVIOUS
  <2> HIDE DEF a, one
  <2>5. \A i \in 1..Len(a) : a[i] = <<v>>[i] BY <2>3, <2>4
  <2>6. a = <<v>> BY <2>3, <2>4, <2>5, SeqEqual
  <2> QED BY <2>6, <1>2 DEF a
<1> HIDE DEF r
<1>8. Sound(r, d, p) BY <1>2, <1>3, <1>5, <1>6, <1>7 DEF Sound
<1> QED BY <1>2, <1>3, <1>8 DEF r

Renderer == [Params -> Rendering]
AllRender(renderers, d) ==
  renderers \in Seq(Renderer) /\ \A i \in 1..Len(renderers) : Renders(renderers[i], d)

\* A list of renderers, from what each is.
LEMMA AllRenderWhen ==
  ASSUME NEW d, NEW n \in Nat, NEW f, f = [i \in 1..n |-> f[i]],
         \A i \in 1..n : Renders(f[i], d)
  PROVE  AllRender(f, d) /\ Len(f) = n
<1>1. \A i \in 1..n : f[i] \in Renderer BY DEF Renders, Renderer
<1> HIDE DEF Renderer
<1>2. f \in [1..n -> Renderer] BY <1>1
<1>3. f \in Seq(Renderer) /\ Len(f) = n BY <1>2
<1> QED BY <1>3 DEF AllRender

\* Two lists of them, one after the other.
LEMMA AllRenderConcat ==
  ASSUME NEW d, NEW a, NEW b, AllRender(a, d), AllRender(b, d)
  PROVE  AllRender(a \o b, d)
<1>1. a \in Seq(Renderer) /\ b \in Seq(Renderer) BY DEF AllRender
<1>2. /\ a \o b \in Seq(Renderer) /\ Len(a \o b) = Len(a) + Len(b)
      /\ \A i \in 1..(Len(a) + Len(b)) :
           (a \o b)[i] = IF i <= Len(a) THEN a[i] ELSE b[i - Len(a)]
  BY <1>1, ConcatProperties
<1>3. Len(a) \in Nat /\ Len(b) \in Nat BY <1>1
<1>4. ASSUME NEW i \in 1..Len(a \o b) PROVE Renders((a \o b)[i], d)
  <2>1. CASE i <= Len(a)
    BY <1>2, <1>3, <2>1 DEF AllRender
  <2>2. CASE ~(i <= Len(a))
    <3>1. i - Len(a) \in 1..Len(b) /\ i \in 1..(Len(a) + Len(b)) BY <1>2, <1>3, <2>2
    <3>2. (a \o b)[i] = b[i - Len(a)] BY <1>2, <2>2, <3>1
    <3> QED BY <3>1, <3>2 DEF AllRender
  <2> QED BY <2>1, <2>2
<1> QED BY <1>2, <1>4 DEF AllRender

\* All of a list, rendered.
LEMMA ListRenders ==
  ASSUME NEW d, NEW renderers, AllRender(renderers, d)
  PROVE  Renders([p \in Params |-> RenderAll(renderers, p)], d)
<1>1. Len(renderers) \in Nat BY DEF AllRender
<1> QED BY <1>1, RenderAllSound DEF AllRender

\* What binds nothing.
LEMMA SilentRenders ==
  ASSUME NEW d
  PROVE  Renders(Silent, d) /\ Own(Silent) = <<>>
<1>1. <<>> \in Params BY EmptySeq DEF Params
<1>2. \A p \in Params : Silent[p] = Nothing(p) BY DEF Silent
<1>3. ASSUME NEW p \in Params PROVE Sound(Silent[p], d, p) /\ Silent[p].params = p \o <<>>
  <2>1. p \o <<>> = p BY ConcatEmptySeq DEF Params
  <2>2. Nothing(p).params = p BY DEF Nothing
  <2> QED BY <1>2, <2>1, <2>2, NothingSound
<1>4. Silent = [p \in Params |-> Silent[p]] BY DEF Silent
<1> QED BY <1>1, <1>3, <1>4, RendersWhen

\* One value bound.
LEMMA BindRenders ==
  ASSUME NEW d, NEW v \in Operands
  PROVE  LET f == [p \in Params |-> Bind(v, p)]
         IN  Renders(f, d) /\ Own(f) = <<v>>
<1> DEFINE f == [p \in Params |-> Bind(v, p)]
<1>1. <<v>> \in Params BY DEF Params
<1>2. \A p \in Params : f[p] = Bind(v, p) OBVIOUS
<1>3. f = [p \in Params |-> f[p]] OBVIOUS
<1> HIDE DEF f
<1>4. \A p \in Params : Sound(f[p], d, p) /\ f[p].params = p \o <<v>>
  BY <1>2, BindSound
<1>5. Renders(f, d) /\ Own(f) = <<v>> BY <1>1, <1>3, <1>4, RendersWhen
<1> QED BY <1>5 DEF f

\* A list of values, each with bind()'s renderer.
LEMMA BindingRenders ==
  ASSUME NEW d, NEW values \in Params
  PROVE  AllRender(Binding(values), d)
<1> DEFINE f == Binding(values)
<1>1. DOMAIN values = 1..Len(values) /\ Len(values) \in Nat BY DEF Params
<1>2. \A i \in 1..Len(values) : f[i] = [p \in Params |-> Bind(values[i], p)]
  BY <1>1 DEF Binding
<1>3. \A i \in 1..Len(values) : values[i] \in Operands BY DEF Params
<1>4. f = [i \in 1..Len(values) |-> f[i]] BY <1>1 DEF Binding
<1>5. \A i \in 1..Len(values) : Renders([p \in Params |-> Bind(values[i], p)], d)
  BY <1>3, BindRenders
<1> HIDE DEF f
<1>6. \A i \in 1..Len(values) : Renders(f[i], d) BY <1>2, <1>5
<1>7. AllRender(f, d) BY <1>1, <1>4, <1>6, AllRenderWhen
<1> QED BY <1>7 DEF f

\* BETWEEN binds its two bounds.
LEMMA BetweenSound ==
  ASSUME NEW d, NEW e, NEW p \in Params,
         e.values[1] \in Operands, e.values[2] \in Operands
  PROVE  /\ Sound(BetweenSql(e, p), d, p)
         /\ BetweenSql(e, p).params = p \o (<<e.values[1]>> \o <<e.values[2]>>)
<1> DEFINE v == e.values[1]
           w == e.values[2]
           first == Bind(v, p)
           g == [q \in Params |-> Bind(w, q)]
<1>1. v \in Operands /\ w \in Operands OBVIOUS
<1>2. BetweenSql(e, p) = [text |-> first.text \o Bind(w, first.params).text,
                         params |-> Bind(w, first.params).params]
  BY DEF BetweenSql
<1> HIDE DEF v, w
<1>3. Sound(first, d, p) /\ first.params = p \o <<v>> BY <1>1, BindSound
<1>4. Renders(g, d) /\ Own(g) = <<w>> BY <1>1, BindRenders
<1>5. first.params \in Params BY <1>3 DEF Sound, Rendering
<1>6. BetweenSql(e, p) = Then(first, g)
  BY <1>2, <1>5 DEF Then
<1> HIDE DEF first, g
<1>7. Sound(Then(first, g), d, p) /\ Then(first, g).params = first.params \o Own(g)
  BY <1>3, <1>4, ThenSound
<1>8. (p \o <<v>>) \o <<w>> = p \o (<<v>> \o <<w>>)
  <2>1. <<v>> \in Seq(Operands) /\ <<w>> \in Seq(Operands) /\ p \in Seq(Operands)
    BY <1>1 DEF Params
  <2> QED BY <2>1, ConcatAssociative
<1> QED BY <1>3, <1>4, <1>6, <1>7, <1>8 DEF v, w

\* IS DISTINCT FROM of Oracle and MSSQL.
Thrice(r) == [r EXCEPT !.text = @ \o @ \o @]

\* A text repeated names its values as before; where they are not numbered it
\* may only be repeated if it binds none.
LEMMA RepeatedSound ==
  ASSUME NEW d, NEW r, NEW p \in Params, Sound(r, d, p),
         d \in Numbered \/ r.params = p
  PROVE  Sound(Thrice(r), d, p) /\ Thrice(r).params = r.params
<1> DEFINE t == r.text
           s == [r EXCEPT !.text = @ \o @ \o @]
<1>1. r \in Rendering /\ t \in Seq(Placeholder) /\ r.params \in Params
  BY DEF Sound, Rendering
<1>2. (t \o t) \o t \in Seq(Placeholder) BY <1>1
<1>3. s.text = (t \o t) \o t /\ s.params = r.params /\ s \in Rendering
  BY <1>1, <1>2 DEF Rendering
<1>4. ASSUME d \in Numbered PROVE Named(s)
  <2>1. \A i \in DOMAIN ((t \o t) \o t) : \E k \in DOMAIN t : ((t \o t) \o t)[i] = t[k]
    <3> HIDE DEF t
    <3>1. ASSUME NEW a \in Seq(Placeholder), NEW b \in Seq(Placeholder), NEW i \in DOMAIN (a \o b)
          PROVE  \/ \E k \in DOMAIN a : (a \o b)[i] = a[k]
                 \/ \E k \in DOMAIN b : (a \o b)[i] = b[k]
      <4>1. /\ Len(a \o b) = Len(a) + Len(b) /\ i \in 1..(Len(a) + Len(b))
            /\ Len(a) \in Nat /\ Len(b) \in Nat
            /\ DOMAIN a = 1..Len(a) /\ DOMAIN b = 1..Len(b)
        OBVIOUS
      <4>2. (a \o b)[i] = IF i <= Len(a) THEN a[i] ELSE b[i - Len(a)]
        BY <4>1, ConcatProperties
      <4>3. CASE i <= Len(a) BY <4>1, <4>2, <4>3
      <4>4. CASE ~(i <= Len(a))
        <5>1. i - Len(a) \in 1..Len(b) BY <4>1, <4>4
        <5> QED BY <4>1, <4>2, <4>4, <5>1
      <4> QED BY <4>3, <4>4
    <3>2. t \o t \in Seq(Placeholder) BY <1>1
    <3>3. \A i \in DOMAIN (t \o t) : \E k \in DOMAIN t : (t \o t)[i] = t[k]
      BY <1>1, <3>1
    <3> QED BY <1>1, <3>1, <3>2, <3>3
  <2>2. Named(r) BY <1>4 DEF Sound
  <2> HIDE DEF s
  <2> QED BY <1>3, <2>1, <2>2 DEF Named
<1>5. ASSUME d \notin Numbered PROVE s.params = p \o OperandsOf(s.text)
  <2> DEFINE u == OperandsOf(t)
  <2>1. p = p \o u BY <1>5 DEF Sound
  <2>2. u \in Params /\ Len(u) = Len(t) BY <1>1, OperandsTyped
  <2>3. u = <<>>
    <3> HIDE DEF u
    <3> QED BY <2>1, <2>2, ConcatEqualIffEmpty DEF Params
  <2>4. Len(t) = 0
    <3>1. Len(<<>>) = 0 OBVIOUS
    <3> HIDE DEF u, t
    <3> QED BY <2>2, <2>3, <3>1
  <2>5. t = <<>> BY <1>1, <2>4
  <2>6. (t \o t) \o t = <<>>
    <3>1. <<>> \in Seq(Placeholder) BY EmptySeq
    <3>2. <<>> \o <<>> = <<>> BY <3>1, ConcatEmptySeq
    <3> HIDE DEF t
    <3> QED BY <2>5, <3>2
  <2>7. OperandsOf((t \o t) \o t) = <<>>
    <3> HIDE DEF t
    <3> QED BY <2>3, <2>5, <2>6 DEF t, u
  <2> HIDE DEF s, t
  <2>8. p \o <<>> = p BY ConcatEmptySeq DEF Params
  <2> QED BY <1>3, <1>5, <2>7, <2>8
<1> HIDE DEF s
<1>6. Sound(s, d, p) BY <1>3, <1>4, <1>5 DEF Sound
<1> QED BY <1>3, <1>6 DEF s, Thrice

\* An element's own operands and, if it has one, its subquery's renderer.
SubRenders(e, d, nested) ==
  e.subQuery # <<>> =>
    /\ Renders(nested[e.subQuery[1]], d)
    /\ d = "MSSQL" /\ e.compare = "DISTINCT" => Own(nested[e.subQuery[1]]) = <<>>

\* The operand of a comparator that takes a value or a subquery.
RightOwn(e, nested) ==
  IF e.subQuery # <<>> THEN Own(nested[e.subQuery[1]]) ELSE <<e.value>>

\* A subquery has its operands in its own text, a value has its placeholder.
LEMMA RightSideSound ==
  ASSUME NEW d, NEW Q, NEW e \in Element(Q), NEW nested, SubRenders(e, d, nested),
         NEW p \in Params
  PROVE  /\ RightOwn(e, nested) \in Params
         /\ Sound(RightSide(e, nested, p), d, p)
         /\ RightSide(e, nested, p).params = p \o RightOwn(e, nested)
<1>1. CASE e.subQuery # <<>>
  <2> DEFINE f == nested[e.subQuery[1]]
  <2>1. Renders(f, d) BY <1>1 DEF SubRenders
  <2>2. RightSide(e, nested, p) = f[p] /\ RightOwn(e, nested) = Own(f)
    BY <1>1 DEF RightSide, RightOwn
  <2>3. <<>> \in Params BY EmptySeq DEF Params
  <2> HIDE DEF f
  <2>4. Own(f) \in Params BY <2>1, <2>3 DEF Renders, Own, Rendering
  <2> QED BY <2>1, <2>2, <2>4 DEF Renders
<1>2. CASE e.subQuery = <<>>
  <2>1. e.value \in Operands BY DEF Element
  <2>2. RightSide(e, nested, p) = Bind(e.value, p) /\ RightOwn(e, nested) = <<e.value>>
    BY <1>2 DEF RightSide, RightOwn
  <2> DEFINE v == e.value
  <2>3. <<v>> \in Params BY <2>1 DEF Params
  <2> HIDE DEF v
  <2>4. v \in Operands BY <2>1 DEF v
  <2>5. Sound(Bind(v, p), d, p) /\ Bind(v, p).params = p \o <<v>> BY <2>4, BindSound
  <2> QED BY <2>2, <2>3, <2>5 DEF v
<1> QED BY <1>1, <1>2

\* QcSqlQueryElement::toSql(), whatever comparator it is and on every driver.
LEMMA ElementRenders ==
  ASSUME NEW d, NEW Q, NEW e \in Element(Q), NEW nested, SubRenders(e, d, nested)
  PROVE  Renders([p \in Params |-> ElementSql(e, d, nested, p)], d)
<1> DEFINE f == [p \in Params |-> ElementSql(e, d, nested, p)]
<1>0. \A p \in Params : f[p] = ElementSql(e, d, nested, p) OBVIOUS
<1>f. f = [p \in Params |-> f[p]] OBVIOUS
<1>v. e.values \in Params /\ e.value \in Operands BY DEF Element, Params
<1> HIDE DEF f
<1> DEFINE Right(p) == RightSide(e, nested, p)
           w == RightOwn(e, nested)
<1>r. /\ w \in Params
      /\ \A p \in Params : Sound(Right(p), d, p) /\ Right(p).params = p \o w
  <2>1. <<>> \in Params BY EmptySeq DEF Params
  <2> QED BY <2>1, RightSideSound
<1>s. \/ e.compare = "IS NULL" \/ (e.compare = "IN" /\ e.subQuery = <<>>)
      \/ e.compare = "BETWEEN" \/ e.compare = "DISTINCT"
      \/ /\ e.compare # "IS NULL" /\ ~(e.compare = "IN" /\ e.subQuery = <<>>)
         /\ e.compare # "BETWEEN" /\ e.compare # "DISTINCT"
  OBVIOUS
<1>1. CASE e.compare = "IS NULL"
  <2>1. \A p \in Params : f[p] = Nothing(p) BY <1>0, <1>1 DEF ElementSql
  <2>2. \A p \in Params : Silent[p] = Nothing(p) BY DEF Silent
  <2>3. Silent = [p \in Params |-> Silent[p]] BY DEF Silent
  <2>4. f = Silent BY <1>f, <2>1, <2>2, <2>3
  <2> QED BY <2>4, SilentRenders DEF f
<1>2. CASE e.compare = "IN" /\ e.subQuery = <<>>
  <2>1. \A p \in Params : ElementSql(e, d, nested, p) = RenderAll(Binding(e.values), p)
    BY <1>2 DEF ElementSql
  <2>2. f = [p \in Params |-> RenderAll(Binding(e.values), p)] BY <2>1 DEF f
  <2> DEFINE b == Binding(e.values)
  <2>3. AllRender(b, d) BY <1>v, BindingRenders
  <2> HIDE DEF b
  <2>4. Renders([p \in Params |-> RenderAll(b, p)], d) BY <2>3, ListRenders
  <2> QED BY <2>2, <2>4 DEF b, f
<1>3. CASE e.compare = "BETWEEN"
  <2>1. \A p \in Params : f[p] = BetweenSql(e, p) BY <1>0, <1>3 DEF ElementSql
  <2>2. e.values[1] \in Operands /\ e.values[2] \in Operands
    <3>1. Readable(e) BY DEF Element
    <3>2. Len(e.values) = 2 BY <1>3, <3>1 DEF Readable
    <3>3. e.values \in Seq(Operands) BY <1>v DEF Params
    <3> QED BY <3>2, <3>3
  <2> DEFINE z == <<e.values[1]>> \o <<e.values[2]>>
  <2>3. z \in Params BY <2>2 DEF Params
  <2>4. \A p \in Params : Sound(f[p], d, p) /\ f[p].params = p \o z
    BY <2>1, <2>2, BetweenSound
  <2> HIDE DEF z
  <2>5. Renders(f, d) BY <1>f, <2>3, <2>4, RendersWhen
  <2> QED BY <2>5 DEF f
<1>4. CASE e.compare = "DISTINCT"
  <2>1. CASE d = "Oracle" \/ (d = "MSSQL" /\ e.subQuery # <<>>)
    <3>1. \A p \in Params : f[p] = [Right(p) EXCEPT !.text = @ \o @ \o @]
      BY <1>0, <1>4, <2>1 DEF ElementSql, DistinctSql
    <3>2. ASSUME NEW p \in Params PROVE d \in Numbered \/ Right(p).params = p
      <4>1. CASE d = "Oracle" BY <4>1 DEF Numbered
      <4>2. CASE d = "MSSQL" /\ e.subQuery # <<>>
        <5>1. w = <<>> BY <4>2, <1>4 DEF RightOwn, SubRenders
        <5>2. p \o <<>> = p BY ConcatEmptySeq DEF Params
        <5> QED BY <1>r, <5>1, <5>2
      <4> QED BY <2>1, <4>1, <4>2
    <3> HIDE DEF Right, w
    <3>3. \A p \in Params : Sound(f[p], d, p) /\ f[p].params = p \o w
      <4> SUFFICES ASSUME NEW p \in Params
                   PROVE  Sound(f[p], d, p) /\ f[p].params = p \o w
        OBVIOUS
      <4> DEFINE r == Right(p)
      <4>1. Sound(r, d, p) /\ r.params = p \o w BY <1>r
      <4>2. d \in Numbered \/ r.params = p BY <3>2
      <4>3. f[p] = Thrice(r) BY <3>1 DEF Thrice
      <4> HIDE DEF r
      <4> QED BY <4>1, <4>2, <4>3, RepeatedSound
    <3>4. Renders(f, d) BY <1>f, <1>r, <3>3, RendersWhen
    <3> QED BY <3>4 DEF f
  <2>2. CASE d = "MSSQL" /\ e.subQuery = <<>>
    <3> DEFINE vs == <<e.value, e.value, e.value>>
    <3>1. \A p \in Params : ElementSql(e, d, nested, p) = RenderAll(Binding(vs), p)
      BY <1>4, <2>2 DEF ElementSql, DistinctSql
    <3>2. f = [p \in Params |-> RenderAll(Binding(vs), p)] BY <3>1 DEF f
    <3>3. vs \in Params BY <1>v DEF Params
    <3> DEFINE b == Binding(vs)
    <3>4. AllRender(b, d) BY <3>3, BindingRenders
    <3> HIDE DEF b
    <3>5. Renders([p \in Params |-> RenderAll(b, p)], d) BY <3>4, ListRenders
    <3> QED BY <3>2, <3>5 DEF b, f
  <2>3. CASE ~(d = "Oracle" \/ d = "MSSQL")
    <3>1. \A p \in Params : f[p] = Right(p)
      BY <1>0, <1>4, <2>3 DEF ElementSql, DistinctSql
    <3> HIDE DEF Right, w
    <3>2. Renders(f, d) BY <1>f, <1>r, <3>1, RendersWhen
    <3> QED BY <3>2 DEF f
  <2> QED BY <2>1, <2>2, <2>3
<1>5. CASE /\ e.compare # "IS NULL" /\ ~(e.compare = "IN" /\ e.subQuery = <<>>)
           /\ e.compare # "BETWEEN" /\ e.compare # "DISTINCT"
  <2>1. \A p \in Params : f[p] = Right(p) BY <1>0, <1>5 DEF ElementSql
  <2> HIDE DEF Right, w
  <2>2. Renders(f, d) BY <1>f, <1>r, <2>1, RendersWhen
  <2> QED BY <2>2 DEF f
<1> QED BY <1>s, <1>1, <1>2, <1>3, <1>4, <1>5 DEF f

\* renderFreeText(), of a text with a value for each '?'.
LEMMA FreeTextRenders ==
  ASSUME NEW d, NEW f \in Fragment, f.marks <= Len(f.values)
  PROVE  Renders([p \in Params |-> FreeTextSql(f, p)], d)
<1> DEFINE vs == SubSeq(f.values, 1, f.marks)
           b == Binding(vs)
           g == [p \in Params |-> RenderAll(b, p)]
<1>1. f.marks \in Nat /\ f.values \in Params BY DEF Fragment, Params
<1>2. vs \in Params
  <2>1. \A i \in 1..f.marks : f.values[i] \in Operands BY <1>1 DEF Params
  <2> QED BY <1>1, <2>1, SubSeqProperties DEF Params
<1> HIDE DEF vs
<1>3. AllRender(b, d) BY <1>2, BindingRenders
<1> HIDE DEF b
<1>4. Renders(g, d) BY <1>3, ListRenders
<1>5. ASSUME NEW p \in Params PROVE FreeTextSql(f, p) = g[p]
  <2> DEFINE filled == IF f.marks < Len(f.values) THEN f.marks ELSE Len(f.values)
             bare == [i \in 1..(f.marks - filled) |-> [position |-> 0, operand |-> Null]]
             r == RenderAll(b, p)
  <2>1. filled = f.marks BY <1>1 DEF Params
  <2>2. bare = <<>>
    <3>1. f.marks - filled = 0 BY <1>1, <2>1
    <3>2. 1..0 = {} OBVIOUS
    <3>3. bare \in Seq({}) /\ Len(bare) = 0 BY <3>1
    <3> HIDE DEF bare
    <3> QED BY <3>3
  <2>3. FreeTextSql(f, p) = [r EXCEPT !.text = @ \o bare]
    BY <2>1 DEF FreeTextSql, b, vs
  <2>4. r = g[p] OBVIOUS
  <2> HIDE DEF bare, filled, g, r
  <2>5. r \in Rendering BY <1>4, <2>4 DEF Renders
  <2>6. r.text \o <<>> = r.text BY <2>5, ConcatEmptySeq DEF Rendering
  <2>7. [r EXCEPT !.text = @ \o bare] = r BY <2>2, <2>5, <2>6 DEF Rendering
  <2> QED BY <2>3, <2>4, <2>7
<1>6. [p \in Params |-> FreeTextSql(f, p)] = g
  <2>1. \A p \in Params : FreeTextSql(f, p) = g[p] BY <1>5
  <2>2. \A p \in Params : g[p] = RenderAll(b, p) OBVIOUS
  <2>3. \A p \in Params : FreeTextSql(f, p) = RenderAll(b, p) BY <2>1, <2>2
  <2> QED BY <2>3
<1> QED BY <1>4, <1>6

-----------------------------------------------------------------------------
(* The statements.                                                         *)

\* The members of a sequence.
LEMMA MembersAre ==
  ASSUME NEW S, NEW s \in Seq(S)
  PROVE  /\ Len(s) \in Nat /\ DOMAIN s = 1..Len(s)
         /\ \A i \in 1..Len(s) : s[i] \in S /\ s[i] \in ToSet(s)
BY DEF ToSet

\* A list of queries, each with its renderer.
LEMMA QueriesRender ==
  ASSUME NEW d, NEW Q, NEW qs \in Seq(Q), NEW nested,
         \A n \in ToSet(qs) : Renders(nested[n], d)
  PROVE  AllRender(Queries(qs, nested), d)
<1> DEFINE f == Queries(qs, nested)
<1>1. /\ Len(qs) \in Nat /\ DOMAIN qs = 1..Len(qs)
      /\ \A i \in 1..Len(qs) : qs[i] \in ToSet(qs)
  BY MembersAre
<1>2. f = [i \in 1..Len(qs) |-> f[i]] BY <1>1 DEF Queries
<1>3. \A i \in 1..Len(qs) : f[i] = nested[qs[i]] BY <1>1 DEF Queries
<1> HIDE DEF f
<1>4. \A i \in 1..Len(qs) : Renders(f[i], d) BY <1>1, <1>3
<1>5. AllRender(f, d) BY <1>1, <1>2, <1>4, AllRenderWhen
<1> QED BY <1>5 DEF f

\* A list of joins.
LEMMA JoinsRender ==
  ASSUME NEW d, NEW Q, NEW js \in Seq(Join(Q)), NEW nested,
         \A j \in ToSet(js) : j.asSubQuery => Renders(nested[j.query], d)
  PROVE  AllRender(Joins(js, nested), d)
<1> DEFINE f == Joins(js, nested)
<1>1. /\ Len(js) \in Nat /\ DOMAIN js = 1..Len(js)
      /\ \A i \in 1..Len(js) : js[i] \in ToSet(js)
  BY MembersAre
<1>2. f = [i \in 1..Len(js) |-> f[i]] BY <1>1 DEF Joins
<1>3. \A i \in 1..Len(js) :
        f[i] = IF js[i].asSubQuery THEN nested[js[i].query] ELSE Silent
  BY <1>1 DEF Joins
<1> HIDE DEF f
<1>4. ASSUME NEW i \in 1..Len(js) PROVE Renders(f[i], d)
  <2>1. CASE js[i].asSubQuery BY <1>1, <1>3, <2>1
  <2>2. CASE ~js[i].asSubQuery BY <1>3, <2>2, SilentRenders
  <2> QED BY <2>1, <2>2
<1>5. AllRender(f, d) BY <1>1, <1>2, <1>4, AllRenderWhen
<1> QED BY <1>5 DEF f

\* A list of conditions.
LEMMA ConditionsRender ==
  ASSUME NEW d, NEW Q, NEW es \in Seq(Element(Q)), NEW nested,
         \A e \in ToSet(es) : SubRenders(e, d, nested)
  PROVE  AllRender(Conditions(es, d, nested), d)
<1> DEFINE f == Conditions(es, d, nested)
<1>1. /\ Len(es) \in Nat /\ DOMAIN es = 1..Len(es)
      /\ \A i \in 1..Len(es) : es[i] \in Element(Q) /\ es[i] \in ToSet(es)
  BY MembersAre
<1>2. f = [i \in 1..Len(es) |-> f[i]] BY <1>1 DEF Conditions
<1>3. \A i \in 1..Len(es) : f[i] = [p \in Params |-> ElementSql(es[i], d, nested, p)]
  BY <1>1 DEF Conditions
<1> HIDE DEF f
<1>4. ASSUME NEW i \in 1..Len(es) PROVE Renders(f[i], d)
  <2> DEFINE e == es[i]
  <2>1. e \in Element(Q) /\ SubRenders(e, d, nested) BY <1>1
  <2> HIDE DEF e
  <2>2. Renders([p \in Params |-> ElementSql(e, d, nested, p)], d) BY <2>1, ElementRenders
  <2> QED BY <1>3, <2>2 DEF e
<1>5. AllRender(f, d) BY <1>1, <1>2, <1>4, AllRenderWhen
<1> QED BY <1>5 DEF f

\* A list of free texts.
LEMMA FreeTextsRender ==
  ASSUME NEW d, NEW fs \in Seq(Fragment), \A f \in ToSet(fs) : f.marks <= Len(f.values)
  PROVE  AllRender(FreeTexts(fs), d)
<1> DEFINE g == FreeTexts(fs)
<1>1. /\ Len(fs) \in Nat /\ DOMAIN fs = 1..Len(fs)
      /\ \A i \in 1..Len(fs) : fs[i] \in Fragment /\ fs[i] \in ToSet(fs)
  BY MembersAre
<1>2. g = [i \in 1..Len(fs) |-> g[i]] BY <1>1 DEF FreeTexts
<1>3. \A i \in 1..Len(fs) : g[i] = [p \in Params |-> FreeTextSql(fs[i], p)]
  BY <1>1 DEF FreeTexts
<1> HIDE DEF g
<1>4. ASSUME NEW i \in 1..Len(fs) PROVE Renders(g[i], d)
  <2> DEFINE f == fs[i]
  <2>1. f \in Fragment /\ f.marks <= Len(f.values) BY <1>1
  <2> HIDE DEF f
  <2>2. Renders([p \in Params |-> FreeTextSql(f, p)], d) BY <2>1, FreeTextRenders
  <2> QED BY <1>3, <2>2 DEF f
<1>5. AllRender(g, d) BY <1>1, <1>2, <1>4, AllRenderWhen
<1> QED BY <1>5 DEF g

\* What has to be so of a query for its text to have its operands.
Filled(q) == \A f \in ToSet(q.free) : f.marks <= Len(f.values)
Fit(q, d, nested) ==
  /\ \A e \in Elements(q) : SubRenders(e, d, nested)
  /\ \A n \in Nested(q) : Renders(nested[n], d)
  /\ Filled(q)

\* The clauses of such a query, in the order of its text.
LEMMA ClausesRender ==
  ASSUME NEW d, NEW Q, NEW q \in Query(Q), NEW nested, Fit(q, d, nested)
  PROVE  AllRender(Clauses(q, d, nested), d)
<1> DEFINE c1 == Queries(q.ctes, nested)
           c2 == Queries(q.from, nested)
           c3 == Joins(q.joins, nested)
           c4 == Conditions(q.where, d, nested)
           c5 == FreeTexts(q.free)
           c6 == Conditions(q.having, d, nested)
           c7 == Queries(q.sets, nested)
<1>0. /\ q.ctes \in Seq(Q) /\ q.from \in Seq(Q) /\ q.joins \in Seq(Join(Q))
      /\ q.where \in Seq(Element(Q)) /\ q.free \in Seq(Fragment)
      /\ q.having \in Seq(Element(Q)) /\ q.sets \in Seq(Q)
  BY DEF Query
<1>1. AllRender(c1, d) /\ AllRender(c2, d) /\ AllRender(c7, d)
  <2>1. /\ \A n \in ToSet(q.ctes) : Renders(nested[n], d)
        /\ \A n \in ToSet(q.from) : Renders(nested[n], d)
        /\ \A n \in ToSet(q.sets) : Renders(nested[n], d)
    BY DEF Fit, Nested
  <2> QED BY <1>0, <2>1, QueriesRender
<1>3. AllRender(c3, d)
  <2>1. \A j \in ToSet(q.joins) : j.asSubQuery => Renders(nested[j.query], d)
    BY DEF Fit, Nested
  <2> QED BY <1>0, <2>1, JoinsRender
<1>4. AllRender(c4, d) /\ AllRender(c6, d)
  <2>1. \A e \in ToSet(q.where) \cup ToSet(q.having) : SubRenders(e, d, nested)
    BY DEF Fit, Elements
  <2> QED BY <1>0, <2>1, ConditionsRender
<1>5. AllRender(c5, d)
  BY <1>0, FreeTextsRender DEF Fit, Filled
<1>6. Clauses(q, d, nested) = (((((c1 \o c2) \o c3) \o c4) \o c5) \o c6) \o c7
  BY DEF Clauses
<1> HIDE DEF c1, c2, c3, c4, c5, c6, c7
<1>7. AllRender((((c1 \o c2) \o c3) \o c4), d) BY <1>1, <1>3, <1>4, AllRenderConcat
<1>8. AllRender((((((c1 \o c2) \o c3) \o c4) \o c5) \o c6) \o c7, d)
  BY <1>1, <1>4, <1>5, <1>7, AllRenderConcat
<1> QED BY <1>6, <1>8

\* A query of the inner builder embeds none.
LEMMA InnerEmbedsNone ==
  ASSUME NEW n \in InnerQuery
  PROVE  Nested(n) = {} /\ \A e \in Elements(n) : e.subQuery = <<>>
<1>1. n \in Query({}) BY DEF InnerQuery
<1>2. \A S : S \in Seq({}) => S = <<>> /\ ToSet(S) = {}
  <2> SUFFICES ASSUME NEW S \in Seq({}) PROVE S = <<>> /\ ToSet(S) = {}
    OBVIOUS
  <2>1. Len(S) = 0
    <3>1. Len(S) # 0 => 1 \in 1..Len(S) OBVIOUS
    <3> QED BY <3>1, ElementOfSeq
  <2> QED BY <2>1 DEF ToSet
<1>3. \A e \in Elements(n) : e.subQuery = <<>> /\ ToSet(e.subQuery) = {}
  <2>1. \A e \in Elements(n) : e \in Element({})
    BY <1>1 DEF Elements, Query, ToSet
  <2>2. \A e \in Element({}) : e.subQuery \in Seq({}) BY DEF Element
  <2> QED BY <1>2, <2>1, <2>2
<1>4. ToSet(n.joins) = {}
  <2>1. n.joins \in Seq(Join({})) BY <1>1 DEF Query
  <2>2. Join({}) = {} BY DEF Join
  <2> QED BY <1>2, <2>1, <2>2
<1>5. ToSet(n.ctes) = {} /\ ToSet(n.from) = {} /\ ToSet(n.sets) = {}
  BY <1>1, <1>2 DEF Query
<1> QED BY <1>3, <1>4, <1>5 DEF Nested

\* So its text has its operands on every driver.
LEMMA EmbeddedRenders ==
  ASSUME NEW d, NEW n \in InnerQuery, Filled(n)
  PROVE  Renders([p \in Params |-> EmbeddedSql(n, d, p)], d)
<1>1. n \in Query({}) BY DEF InnerQuery
<1>2. Fit(n, d, <<>>) BY InnerEmbedsNone DEF Fit, SubRenders
<1> DEFINE c == Clauses(n, d, <<>>)
<1>3. AllRender(c, d) BY <1>1, <1>2, ClausesRender
<1> HIDE DEF c
<1>4. Renders([p \in Params |-> RenderAll(c, p)], d) BY <1>3, ListRenders
<1> QED BY <1>4 DEF EmbeddedSql, c

\* What the outer builder embeds are queries of the inner one.
LEMMA NestedInner ==
  ASSUME NEW q \in Query(InnerQuery)
  PROVE  Nested(q) \subseteq InnerQuery
<1>1. /\ ToSet(q.ctes) \subseteq InnerQuery /\ ToSet(q.from) \subseteq InnerQuery
      /\ ToSet(q.sets) \subseteq InnerQuery
  BY DEF Query, ToSet
<1>2. ToSet(q.joins) \subseteq Join(InnerQuery) BY DEF Query, ToSet
<1>3. \A j \in Join(InnerQuery) : j.query \in InnerQuery BY DEF Join
<1>4. Elements(q) \subseteq Element(InnerQuery) BY DEF Query, Elements, ToSet
<1>5. \A e \in Element(InnerQuery) : e.subQuery \in Seq(InnerQuery) BY DEF Element
<1>6. \A e \in Elements(q) : ToSet(e.subQuery) \subseteq InnerQuery
  BY <1>4, <1>5 DEF ToSet
<1> QED BY <1>1, <1>2, <1>3, <1>6 DEF Nested

\* RepeatsParameters, of any query.
Repeats(q) ==
  \E e \in Elements(q) :
    /\ e.compare = "DISTINCT"
    /\ e.subQuery # <<>>
    /\ EmbeddedSql(e.subQuery[1], "MSSQL", <<>>).params # <<>>

\* One that embeds such queries is fit to be rendered, with Embedding(q, d).
LEMMA EmbeddingFits ==
  ASSUME NEW d, NEW q \in Query(InnerQuery), Filled(q), \A n \in Nested(q) : Filled(n),
         d # "MSSQL" \/ ~Repeats(q)
  PROVE  Fit(q, d, Embedding(q, d))
<1> DEFINE nested == Embedding(q, d)
<1>1. Nested(q) \subseteq InnerQuery BY NestedInner
<1>2. ASSUME NEW n \in Nested(q)
      PROVE  Renders(nested[n], d) /\ Own(nested[n]) = EmbeddedSql(n, d, <<>>).params
  <2> DEFINE f == [p \in Params |-> EmbeddedSql(n, d, p)]
  <2>1. nested[n] = f BY DEF Embedding
  <2>2. Renders(f, d) BY <1>1, EmbeddedRenders
  <2>3. f[<<>>] = EmbeddedSql(n, d, <<>>)
    <3>1. <<>> \in Params BY EmptySeq DEF Params
    <3> QED BY <3>1
  <2> HIDE DEF nested, f
  <2> QED BY <2>1, <2>2, <2>3 DEF Own
<1> HIDE DEF nested
<1>3. ASSUME NEW e \in Elements(q), e.subQuery # <<>>
      PROVE  e.subQuery[1] \in Nested(q)
  <2>1. e \in Element(InnerQuery) BY DEF Query, Elements, ToSet
  <2>2. e.subQuery \in Seq(InnerQuery) BY <2>1 DEF Element
  <2>3. e.subQuery[1] \in ToSet(e.subQuery)
    <3>1. Len(e.subQuery) # 0 BY <1>3, <2>2
    <3>2. 1 \in DOMAIN e.subQuery BY <2>2, <3>1
    <3> QED BY <3>2 DEF ToSet
  <2> QED BY <2>3 DEF Nested
<1>4. ASSUME NEW e \in Elements(q) PROVE SubRenders(e, d, nested)
  <2> SUFFICES ASSUME e.subQuery # <<>>
               PROVE  /\ Renders(nested[e.subQuery[1]], d)
                      /\ d = "MSSQL" /\ e.compare = "DISTINCT" =>
                           Own(nested[e.subQuery[1]]) = <<>>
    BY DEF SubRenders
  <2>1. e.subQuery[1] \in Nested(q) BY <1>3
  <2>2. ASSUME d = "MSSQL", e.compare = "DISTINCT"
        PROVE  EmbeddedSql(e.subQuery[1], d, <<>>).params = <<>>
    BY <2>2 DEF Repeats
  <2> QED BY <1>2, <2>1, <2>2
<1>5. Fit(q, d, nested) BY <1>2, <1>4 DEF Fit
<1> QED BY <1>5 DEF nested

\* QcSqlQuery::toSql().
LEMMA QueryRenders ==
  ASSUME NEW d, NEW q \in Query(InnerQuery), Filled(q), \A n \in Nested(q) : Filled(n),
         d # "MSSQL" \/ ~Repeats(q)
  PROVE  Sound(QuerySql(q, d, <<>>), d, <<>>)
<1> DEFINE c == Clauses(q, d, Embedding(q, d))
           f == [p \in Params |-> RenderAll(c, p)]
<1>1. AllRender(c, d) BY EmbeddingFits, ClausesRender
<1> HIDE DEF c
<1>2. Renders(f, d) BY <1>1, ListRenders
<1>3. <<>> \in Params BY EmptySeq DEF Params
<1>4. f[<<>>] = RenderAll(c, <<>>) BY <1>3
<1> HIDE DEF f
<1>5. Sound(RenderAll(c, <<>>), d, <<>>) BY <1>2, <1>3, <1>4 DEF Renders
<1> QED BY <1>5 DEF QuerySql, c

\* That of an insert, update or delete, but for RETURNING.
LEMMA ChangesRender ==
  ASSUME NEW d, NEW q \in Query(InnerQuery), Filled(q), \A n \in Nested(q) : Filled(n),
         d # "MSSQL" \/ ~Repeats(q)
  PROVE  Sound(ChangesSql(q, d, <<>>), d, <<>>)
<1> DEFINE values == Assigned(q)
           a == Binding(values)
           b == Conditions(q.where, d, Embedding(q, d))
           f == [p \in Params |-> RenderAll(a \o b, p)]
<1>1. values \in Params
  <2>1. q.assign \in Seq(Assignment) BY DEF Query
  <2>2. /\ Len(q.assign) \in Nat /\ DOMAIN q.assign = 1..Len(q.assign)
        /\ \A i \in 1..Len(q.assign) : q.assign[i] \in Assignment
    BY <2>1
  <2>3. \A i \in 1..Len(q.assign) : q.assign[i].value \in Operands BY <2>2 DEF Assignment
  <2>4. values = [i \in 1..Len(q.assign) |-> q.assign[i].value] BY <2>2 DEF Assigned
  <2>5. values \in [1..Len(q.assign) -> Operands] BY <2>3, <2>4
  <2> HIDE DEF values
  <2> QED BY <2>2, <2>5 DEF Params
<1> HIDE DEF values
<1>2. AllRender(a, d) BY <1>1, BindingRenders
<1>3. AllRender(b, d)
  <2>1. Fit(q, d, Embedding(q, d)) BY EmbeddingFits
  <2>2. q.where \in Seq(Element(InnerQuery)) BY DEF Query
  <2>3. \A e \in ToSet(q.where) : SubRenders(e, d, Embedding(q, d))
    BY <2>1 DEF Fit, Elements
  <2> QED BY <2>2, <2>3, ConditionsRender
<1> HIDE DEF a, b
<1>4. AllRender(a \o b, d) BY <1>2, <1>3, AllRenderConcat
<1> DEFINE c == a \o b
<1> HIDE DEF c
<1>5. Renders([p \in Params |-> RenderAll(c, p)], d) BY <1>4, ListRenders DEF c
<1>6. <<>> \in Params BY EmptySeq DEF Params
<1>7. [p \in Params |-> RenderAll(c, p)][<<>>] = RenderAll(c, <<>>) BY <1>6
<1>8. Sound(RenderAll(c, <<>>), d, <<>>) BY <1>5, <1>6, <1>7 DEF Renders
<1> QED BY <1>8 DEF ChangesSql, c, a, b, values

-----------------------------------------------------------------------------
(* Placeholders and their operands.                                        *)

\* PlaceholdersMatch says of the statements what is proved of their parts.
LEMMA TypedPlaceholdersMatch ==
  ASSUME TypeOK PROVE PlaceholdersMatch
<1> SUFFICES ASSUME FragmentsFilled, NEW d \in Driver, ~(d = "MSSQL" /\ RepeatsParameters)
             PROVE  Aligned(d)
  BY DEF PlaceholdersMatch
<1>1. Outer \in Query(InnerQuery) BY DEF TypeOK, Outer
<1>2. Filled(Outer) /\ \A n \in Nested(Outer) : Filled(n)
  BY DEF FragmentsFilled, Within, Filled
<1>3. d # "MSSQL" \/ ~Repeats(Outer) BY DEF RepeatsParameters, Repeats
<1> DEFINE r == Rendered(d)
<1>4. /\ r.text \in Seq(Placeholder) /\ r.params \in Params
      /\ d \in Numbered => Named(r)
      /\ d \notin Numbered => r.params = <<>> \o OperandsOf(r.text)
  <2>1. CASE kind = "select"
    <3>1. Sound(QuerySql(Outer, d, <<>>), d, <<>>) BY <1>1, <1>2, <1>3, QueryRenders
    <3>2. r = QuerySql(Outer, d, <<>>) BY <2>1 DEF Rendered
    <3> QED BY <3>1, <3>2 DEF Sound, Rendering
  <2>2. CASE kind # "select"
    <3> DEFINE c == ChangesSql(Outer, d, <<>>)
    <3>1. Sound(c, d, <<>>) BY <1>1, <1>2, <1>3, ChangesRender
    <3>2. r.text = c.text /\ r.params = c.params BY <2>2 DEF Rendered, ChangeSql
    <3> HIDE DEF c, r
    <3> QED BY <3>1, <3>2 DEF Sound, Rendering, Named
  <2> QED BY <2>1, <2>2
<1> HIDE DEF r
<1>5. <<>> \o OperandsOf(r.text) = OperandsOf(r.text)
  BY <1>4, OperandsTyped, ConcatEmptySeq DEF Params
<1> QED BY <1>4, <1>5 DEF Aligned, r, Named, OperandsOf

\* Whatever calls made the statement, every placeholder of its text gets the
\* operand the caller gave there, on every driver.
THEOREM EveryPlaceholderMatches == Spec => []PlaceholdersMatch
<1>1. TypeOK => PlaceholdersMatch BY TypedPlaceholdersMatch
<1> QED BY <1>1, TypeCorrect, PTL

\* The same of the placeholders of RETURNING ... INTO and what the driver
\* binds for them.
THEOREM OutPlaceholdersAreBound == Spec => []OutPlaceholdersFollow
<1>1. ASSUME TypeOK, kind # "select", NEW d \in Driver
      PROVE  Rendered(d).outs = OutBinds(Rendered(d).params, ReturningColumnCount(Outer, d))
  <2> DEFINE c == ChangesSql(Outer, d, <<>>)
             r == Rendered(d)
  <2>1. r.params = c.params /\ r.outs = OutPlaceholders(Outer, d, c.params)
    BY <1>1 DEF Rendered, ChangeSql
  <2>2. Outer.returning \in Seq(Columns) BY <1>1 DEF TypeOK, Outer, Query
  <2>3. DOMAIN Outer.returning = 1..Len(Outer.returning) BY <2>2
  <2> HIDE DEF c, r
  <2>4. CASE d = "Oracle"
    BY <2>1, <2>3, <2>4 DEF OutPlaceholders, OutBinds, ReturningColumnCount, r
  <2>5. CASE d # "Oracle"
    <3>1. r.outs = <<>> /\ ReturningColumnCount(Outer, d) = 0
      BY <2>1, <2>5 DEF OutPlaceholders, ReturningColumnCount
    <3>2. OutBinds(r.params, 0) = <<>>
      <4>1. OutBinds(r.params, 0) = [i \in 1..0 |-> Len(r.params) + i] BY DEF OutBinds
      <4> DEFINE e == [i \in 1..0 |-> Len(r.params) + i]
      <4>2. e \in Seq({}) /\ Len(e) = 0 OBVIOUS
      <4> HIDE DEF e
      <4>3. e = <<>> BY <4>2
      <4> QED BY <4>1, <4>3 DEF e
    <3> QED BY <3>1, <3>2 DEF r
  <2> QED BY <2>4, <2>5
<1>2. TypeOK => OutPlaceholdersFollow BY <1>1 DEF OutPlaceholdersFollow
<1> QED BY <1>2, TypeCorrect, PTL

-----------------------------------------------------------------------------
(* The values bound.                                                       *)

\* A renderer that binds its own values after those bound before, whichever
\* these are, be its text what it may.
Binds(f) ==
  /\ f \in Renderer
  /\ Own(f) \in Params
  /\ \A p \in Params : f[p].params = p \o Own(f)

\* What the first n of a list of renderers bind.
Bound(renderers, n) == Stages(renderers, <<>>)[n].params

\* It is enough to know the values.
LEMMA BindsWhen ==
  ASSUME NEW w \in Params, NEW f, f = [p \in Params |-> f[p]],
         \A p \in Params : f[p] \in Rendering /\ f[p].params = p \o w
  PROVE  Binds(f) /\ Own(f) = w
<1>1. f \in Renderer BY DEF Renderer
<1>2. <<>> \in Params BY EmptySeq DEF Params
<1>3. <<>> \o w = w BY ConcatEmptySeq DEF Params
<1>4. Own(f) = w BY <1>2, <1>3 DEF Own
<1> QED BY <1>1, <1>4 DEF Binds

\* One renderer's values after those bound before.
LEMMA ThenBinds ==
  ASSUME NEW f, Binds(f), NEW before \in Rendering
  PROVE  /\ Then(before, f) \in Rendering
         /\ Then(before, f).params = before.params \o Own(f)
<1> DEFINE this == f[before.params]
           u == before.text
           t == this.text
<1>1. before.params \in Params /\ u \in Seq(Placeholder) BY DEF Rendering
<1>2. this \in Rendering /\ this.params = before.params \o Own(f)
  BY <1>1 DEF Binds, Renderer
<1>3. t \in Seq(Placeholder) /\ this.params \in Params BY <1>2 DEF Rendering
<1>4. Then(before, f) = [text |-> u \o t, params |-> this.params] BY DEF Then
<1> HIDE DEF this, u, t
<1>5. u \o t \in Seq(Placeholder) BY <1>1, <1>3
<1> QED BY <1>2, <1>3, <1>4, <1>5 DEF Rendering

\* A list of renderers binds their values one after the other.
LEMMA RenderAllBinds ==
  ASSUME NEW renderers, Len(renderers) \in Nat,
         \A i \in 1..Len(renderers) : Binds(renderers[i])
  PROVE  LET f == [p \in Params |-> RenderAll(renderers, p)]
         IN  /\ Binds(f)
             /\ Own(f) = Bound(renderers, Len(renderers))
             /\ Bound(renderers, 0) = <<>>
             /\ \A n \in 1..Len(renderers) :
                  Bound(renderers, n) = Bound(renderers, n - 1) \o Own(renderers[n])
             /\ \A n \in 0..Len(renderers) : Bound(renderers, n) \in Params
<1> DEFINE N == Len(renderers)
           At(p, n) == Stages(renderers, p)[n]
           B(n) == Bound(renderers, n)
           T == {n \in Nat : n <= N =>
                   /\ B(n) \in Params
                   /\ \A p \in Params : At(p, n) \in Rendering /\ At(p, n).params = p \o B(n)}
<1>e. <<>> \in Params BY EmptySeq DEF Params
<1>1. \A p \in Params :
        /\ RenderAll(renderers, p) = At(p, N)
        /\ At(p, 0) = Nothing(p)
        /\ \A n \in 1..N : At(p, n) = Then(At(p, n - 1), renderers[n])
  BY StagesAre
<1>b. \A n : B(n) = At(<<>>, n).params BY DEF Bound
<1> HIDE DEF At, B
<1>2. B(0) = <<>> BY <1>1, <1>b, <1>e DEF Nothing
<1>3. 0 \in T
  <2>1. ASSUME NEW p \in Params PROVE At(p, 0) \in Rendering /\ At(p, 0).params = p \o B(0)
    <3>1. p \o <<>> = p BY ConcatEmptySeq DEF Params
    <3>2. <<>> \in Seq(Placeholder) BY EmptySeq
    <3>3. Nothing(p) \in Rendering /\ Nothing(p).params = p BY <3>2 DEF Nothing, Rendering
    <3> QED BY <1>1, <1>2, <3>1, <3>3
  <2> QED BY <2>1, <1>2, <1>e
<1>4. ASSUME NEW n \in Nat, n \in T, n + 1 <= N
      PROVE  /\ B(n + 1) = B(n) \o Own(renderers[n + 1])
             /\ B(n + 1) \in Params
             /\ \A p \in Params : /\ At(p, n + 1) \in Rendering
                                  /\ At(p, n + 1).params = p \o B(n + 1)
  <2>1. n <= N /\ n + 1 \in 1..N /\ (n + 1) - 1 = n BY <1>4
  <2> DEFINE f == renderers[n + 1]
             u == B(n)
             w == Own(f)
  <2>2. Binds(f) /\ w \in Params BY <2>1 DEF Binds
  <2>3. u \in Params /\ \A p \in Params : At(p, n) \in Rendering /\ At(p, n).params = p \o u
    BY <1>4, <2>1
  <2>4. \A p \in Params : At(p, n + 1) = Then(At(p, n), f) BY <1>1, <2>1
  <2> HIDE DEF f, u, w
  <2>5. \A p \in Params : At(p, n + 1) \in Rendering /\ At(p, n + 1).params = (p \o u) \o w
    BY <2>2, <2>3, <2>4, ThenBinds DEF w
  <2>6. ASSUME NEW p \in Params PROVE (p \o u) \o w = p \o (u \o w)
    BY <2>2, <2>3, ConcatAssociative DEF Params
  <2>7. <<>> \o (u \o w) = u \o w /\ u \o w \in Params
    BY <2>2, <2>3, ConcatEmptySeq DEF Params
  <2>8. B(n + 1) = u \o w BY <1>b, <1>e, <2>5, <2>6, <2>7
  <2> QED BY <2>5, <2>6, <2>7, <2>8 DEF u, w, f
<1>5. \A n \in Nat : n \in T
  <2>1. ASSUME NEW n \in Nat, n \in T PROVE n + 1 \in T
    <3>1. CASE n + 1 <= N
      <4> HIDE DEF T
      <4>1. /\ B(n + 1) \in Params
            /\ \A p \in Params : /\ At(p, n + 1) \in Rendering
                                 /\ At(p, n + 1).params = p \o B(n + 1)
        BY <1>4, <2>1, <3>1
      <4> QED BY <4>1 DEF T
    <3>2. CASE ~(n + 1 <= N) BY <3>2
    <3> QED BY <3>1, <3>2
  <2> HIDE DEF T
  <2> QED BY <1>3, <2>1, Induction
<1>6. /\ \A n \in 0..N : B(n) \in Params
      /\ \A p \in Params : At(p, N) \in Rendering /\ At(p, N).params = p \o B(N)
  BY <1>5
<1>7. \A n \in 1..N : B(n) = B(n - 1) \o Own(renderers[n])
  <2> SUFFICES ASSUME NEW n \in 1..N PROVE B(n) = B(n - 1) \o Own(renderers[n])
    OBVIOUS
  <2>1. n - 1 \in Nat /\ (n - 1) + 1 = n /\ n <= N OBVIOUS
  <2>2. n - 1 \in T BY <1>5, <2>1
  <2> HIDE DEF T, N
  <2> QED BY <1>4, <2>1, <2>2
<1> DEFINE f == [p \in Params |-> RenderAll(renderers, p)]
<1>8. \A p \in Params : f[p] = At(p, N) BY <1>1
<1>9. f = [p \in Params |-> f[p]] OBVIOUS
<1>10. N \in 0..N OBVIOUS
<1>11. Binds(f) /\ Own(f) = B(N)
  <2> HIDE DEF f, N
  <2> QED BY <1>6, <1>8, <1>9, <1>10, BindsWhen
<1> HIDE DEF f
<1> QED BY <1>2, <1>6, <1>7, <1>11 DEF f, B

\* bind(), of a list of values: it binds that list.
LEMMA BindingBinds ==
  ASSUME NEW values \in Params
  PROVE  LET f == [p \in Params |-> RenderAll(Binding(values), p)]
         IN  Binds(f) /\ Own(f) = values
<1> DEFINE b == Binding(values)
           N == Len(values)
           T == {n \in Nat : n <= N => Bound(b, n) = SubSeq(values, 1, n)}
           f == [p \in Params |-> RenderAll(b, p)]
<1>1. N \in Nat /\ DOMAIN values = 1..N /\ values \in Seq(Operands) BY DEF Params
<1>2. b = [i \in 1..N |-> [p \in Params |-> Bind(values[i], p)]] BY <1>1 DEF Binding
<1>3. Len(b) = N BY <1>1, <1>2
<1>4. ASSUME NEW i \in 1..N PROVE Binds(b[i]) /\ Own(b[i]) = <<values[i]>>
  <2> DEFINE v == values[i]
             g == [p \in Params |-> Bind(v, p)]
  <2>1. v \in Operands BY <1>1
  <2>2. b[i] = g BY <1>2
  <2>3. \A p \in Params : g[p] = Bind(v, p) OBVIOUS
  <2>4. g = [p \in Params |-> g[p]] OBVIOUS
  <2> HIDE DEF v, g
  <2>5. \A p \in Params : Sound(g[p], "Oracle", p) /\ g[p].params = p \o <<v>>
    BY <2>1, <2>3, BindSound
  <2>6. <<v>> \in Params BY <2>1 DEF Params
  <2>7. Binds(g) /\ Own(g) = <<v>> BY <2>4, <2>5, <2>6, BindsWhen DEF Sound
  <2> QED BY <2>2, <2>7 DEF v
<1> HIDE DEF b
<1>5. /\ Binds(f) /\ Own(f) = Bound(b, N) /\ Bound(b, 0) = <<>>
      /\ \A n \in 1..N : Bound(b, n) = Bound(b, n - 1) \o Own(b[n])
  BY <1>1, <1>3, <1>4, RenderAllBinds
<1>6. 0 \in T
  <2>1. SubSeq(values, 1, 0) = <<>> BY <1>1
  <2> QED BY <1>5, <2>1
<1>7. ASSUME NEW n \in Nat, n \in T PROVE n + 1 \in T
  <2>1. SUFFICES ASSUME n + 1 <= N PROVE Bound(b, n + 1) = SubSeq(values, 1, n + 1)
    OBVIOUS
  <2>2. n + 1 \in 1..N /\ (n + 1) - 1 = n /\ n <= N BY <2>1, <1>1
  <2>3. Bound(b, n + 1) = SubSeq(values, 1, n) \o <<values[n + 1]>>
    BY <1>4, <1>5, <1>7, <2>2
  <2> DEFINE s == SubSeq(values, 1, n)
             t == SubSeq(values, 1, n + 1)
             v == values[n + 1]
  <2>4. /\ s \in Seq(Operands) /\ Len(s) = n /\ \A i \in 1..n : s[i] = values[i]
        /\ t \in Seq(Operands) /\ Len(t) = n + 1 /\ \A i \in 1..(n + 1) : t[i] = values[i]
        /\ v \in Operands
    BY <1>1, <2>2
  <2> HIDE DEF s, t, v
  <2>5. /\ s \o <<v>> \in Seq(Operands) /\ Len(s \o <<v>>) = n + 1
        /\ \A i \in 1..n : (s \o <<v>>)[i] = s[i]
        /\ (s \o <<v>>)[n + 1] = v
    BY <2>4
  <2>6. \A i \in 1..(n + 1) : (s \o <<v>>)[i] = t[i]
    <3> SUFFICES ASSUME NEW i \in 1..(n + 1) PROVE (s \o <<v>>)[i] = t[i]
      OBVIOUS
    <3>1. CASE i \in 1..n BY <2>4, <2>5, <3>1
    <3>2. CASE i = n + 1
      <4>1. t[n + 1] = values[n + 1] BY <2>4
      <4>2. v = values[n + 1] BY DEF v
      <4> QED BY <2>5, <3>2, <4>1, <4>2
    <3>3. i \in 1..n \/ i = n + 1 OBVIOUS
    <3> QED BY <3>1, <3>2, <3>3
  <2>7. s \o <<v>> = t BY <2>4, <2>5, <2>6, SeqEqual
  <2> QED BY <2>3, <2>7 DEF s, t, v
<1>8. N \in T
  <2> HIDE DEF T
  <2> QED BY <1>1, <1>6, <1>7, Induction
<1>9. SubSeq(values, 1, N) = values BY <1>1
<1>10. Own(f) = values BY <1>5, <1>8, <1>9, <1>1
<1> QED BY <1>5, <1>10 DEF b

-----------------------------------------------------------------------------
(* The same values on every driver.                                        *)

\* s is t with some of its values repeated on the spot: s[i] is t[at[i]].
StuttersBy(s, t, at) ==
  /\ at \in [0..Len(s) -> 0..Len(t)]
  /\ at[0] = 0
  /\ at[Len(s)] = Len(t)
  /\ \A i \in 1..Len(s) :
       /\ at[i] >= 1
       /\ at[i] = at[i - 1] \/ at[i] = at[i - 1] + 1
       /\ s[i] = t[at[i]]
Stutters(s, t) == \E at : StuttersBy(s, t, at)

\* What driver d binds next to what the others do.
Alike(s, t, d) == IF d = "MSSQL" THEN Stutters(s, t) ELSE s = t

\* Two lists of values one after the other, on d and on another.
LEMMA StuttersConcat ==
  ASSUME NEW s \in Params, NEW t \in Params, NEW u \in Params, NEW w \in Params,
         Stutters(s, t), Stutters(u, w)
  PROVE  Stutters(s \o u, t \o w)
<1> DEFINE a == Len(s)
           b == Len(t)
           c == Len(u)
           e == Len(w)
<1>1. a \in Nat /\ b \in Nat /\ c \in Nat /\ e \in Nat BY DEF Params
<1>2. PICK f : StuttersBy(s, t, f) BY DEF Stutters
<1>3. PICK g : StuttersBy(u, w, g) BY DEF Stutters
<1>4. /\ f \in [0..a -> 0..b] /\ f[0] = 0 /\ f[a] = b
      /\ \A i \in 1..a : f[i] >= 1 /\ (f[i] = f[i - 1] \/ f[i] = f[i - 1] + 1) /\ s[i] = t[f[i]]
  BY <1>2 DEF StuttersBy
<1>5. /\ g \in [0..c -> 0..e] /\ g[0] = 0 /\ g[c] = e
      /\ \A i \in 1..c : g[i] >= 1 /\ (g[i] = g[i - 1] \/ g[i] = g[i - 1] + 1) /\ u[i] = w[g[i]]
  BY <1>3 DEF StuttersBy
<1>6. /\ Len(s \o u) = a + c /\ Len(t \o w) = b + e
      /\ \A i \in 1..(a + c) : (s \o u)[i] = IF i <= a THEN s[i] ELSE u[i - a]
      /\ \A i \in 1..(b + e) : (t \o w)[i] = IF i <= b THEN t[i] ELSE w[i - b]
  BY ConcatProperties DEF Params
<1> HIDE DEF a, b, c, e
<1> DEFINE h == [i \in 0..(a + c) |-> IF i <= a THEN f[i] ELSE b + g[i - a]]
<1>7. ASSUME NEW i \in 0..a PROVE h[i] = f[i] /\ f[i] \in 0..b
  BY <1>1, <1>4
<1>8. ASSUME NEW i \in 0..c PROVE h[a + i] = b + g[i] /\ g[i] \in 0..e
  <2>1. CASE i = 0 BY <1>1, <1>4, <1>5, <2>1
  <2>2. CASE i \in 1..c BY <1>1, <1>5, <2>2
  <2>3. i = 0 \/ i \in 1..c BY <1>1
  <2> QED BY <2>1, <2>2, <2>3
<1>9. h \in [0..(a + c) -> 0..(b + e)]
  <2>1. ASSUME NEW i \in 0..(a + c) PROVE h[i] \in 0..(b + e)
    <3>1. CASE i \in 0..a
      <4>1. h[i] = f[i] /\ f[i] \in 0..b BY <3>1, <1>7
      <4> HIDE DEF h
      <4> QED BY <4>1, <1>1
    <3>2. CASE i - a \in 0..c
      <4>1. a + (i - a) = i BY <1>1
      <4>2. h[i] = b + g[i - a] /\ g[i - a] \in 0..e BY <3>2, <4>1, <1>8
      <4> HIDE DEF h
      <4> QED BY <4>2, <1>1
    <3>3. i \in 0..a \/ i - a \in 0..c BY <1>1
    <3> QED BY <3>1, <3>2, <3>3
  <2> QED BY <2>1
<1>10. h[0] = 0 BY <1>1, <1>4, <1>7
<1>11. h[a + c] = b + e
  <2>1. c \in 0..c BY <1>1
  <2> HIDE DEF h
  <2> QED BY <2>1, <1>5, <1>8
<1> HIDE DEF h
<1>12. ASSUME NEW i \in 1..(a + c)
       PROVE  /\ h[i] >= 1 /\ (h[i] = h[i - 1] \/ h[i] = h[i - 1] + 1)
              /\ (s \o u)[i] = (t \o w)[h[i]]
  <2>1. CASE i \in 1..a
    <3>1. i \in 0..a /\ i - 1 \in 0..a /\ i <= a BY <2>1, <1>1
    <3>2. h[i] = f[i] /\ h[i - 1] = f[i - 1] /\ f[i] \in 0..b BY <3>1, <1>7
    <3>3. f[i] >= 1 /\ (f[i] = f[i - 1] \/ f[i] = f[i - 1] + 1) /\ s[i] = t[f[i]]
      BY <2>1, <1>4
    <3>4. (s \o u)[i] = s[i] BY <1>6, <3>1
    <3>5. f[i] \in 1..(b + e) /\ f[i] <= b BY <3>2, <3>3, <1>1
    <3>6. (t \o w)[f[i]] = t[f[i]] BY <1>6, <3>5
    <3> QED BY <3>2, <3>3, <3>4, <3>6
  <2>2. CASE i - a \in 1..c
    <3> DEFINE j == i - a
    <3>1. j \in 1..c /\ j \in 0..c /\ j - 1 \in 0..c /\ a + j = i /\ a + (j - 1) = i - 1
      BY <2>2, <1>1
    <3>a. ~(i <= a) BY <2>2, <1>1
    <3> HIDE DEF j
    <3>2. /\ h[i] = b + g[j] /\ h[i - 1] = b + g[j - 1]
          /\ g[j] \in 0..e /\ g[j - 1] \in 0..e
      <4>1. h[a + j] = b + g[j] /\ g[j] \in 0..e BY <3>1, <1>8
      <4>2. h[a + (j - 1)] = b + g[j - 1] /\ g[j - 1] \in 0..e BY <3>1, <1>8
      <4> QED BY <3>1, <4>1, <4>2
    <3>3. g[j] >= 1 /\ (g[j] = g[j - 1] \/ g[j] = g[j - 1] + 1) /\ u[j] = w[g[j]]
      BY <3>1, <1>5
    <3>4. (s \o u)[i] = u[j] BY <1>6, <3>a DEF j
    <3>5. b + g[j] \in 1..(b + e) /\ ~(b + g[j] <= b) /\ (b + g[j]) - b = g[j]
      BY <3>2, <3>3, <1>1
    <3>6. (t \o w)[b + g[j]] = w[g[j]] BY <1>6, <3>5
    <3>7. b + g[j] >= 1 /\ (b + g[j] = b + g[j - 1] \/ b + g[j] = (b + g[j - 1]) + 1)
      BY <3>2, <3>3, <1>1
    <3> QED BY <3>2, <3>3, <3>4, <3>6, <3>7
  <2>3. i \in 1..a \/ i - a \in 1..c BY <1>1
  <2> QED BY <2>1, <2>2, <2>3
<1>13. StuttersBy(s \o u, t \o w, h)
  BY <1>6, <1>9, <1>10, <1>11, <1>12 DEF StuttersBy
<1> QED BY <1>13 DEF Stutters

\* A list does not repeat itself, but is alike.
LEMMA AlikeItself ==
  ASSUME NEW s \in Params, NEW d
  PROVE  Alike(s, s, d)
<1> DEFINE at == [i \in 0..Len(s) |-> i]
<1>1. Len(s) \in Nat BY DEF Params
<1>2. StuttersBy(s, s, at) BY <1>1 DEF StuttersBy
<1> QED BY <1>2 DEF Alike, Stutters

\* MSSQL's three for one.
LEMMA ThreeStutter ==
  ASSUME NEW v
  PROVE  Stutters(<<v, v, v>>, <<v>>)
<1> DEFINE at == [i \in 0..3 |-> IF i = 0 THEN 0 ELSE 1]
           s == <<v, v, v>>
           t == <<v>>
<1>1. Len(s) = 3 /\ Len(t) = 1 /\ t[1] = v /\ \A i \in 1..3 : s[i] = v
  OBVIOUS
<1> HIDE DEF s, t
<1>2. StuttersBy(s, t, at) BY <1>1 DEF StuttersBy
<1>3. Stutters(s, t) BY <1>2 DEF Stutters
<1> QED BY <1>3 DEF s, t

\* Lists alike, one after the other.
LEMMA AlikeConcat ==
  ASSUME NEW s \in Params, NEW t \in Params, NEW u \in Params, NEW w \in Params, NEW d,
         Alike(s, t, d), Alike(u, w, d)
  PROVE  Alike(s \o u, t \o w, d)
BY StuttersConcat DEF Alike

\* f renders for d what g does for another driver.
Follows(f, g, d) == Binds(f) /\ Binds(g) /\ Alike(Own(f), Own(g), d)
AllFollow(fs, gs, d) ==
  /\ fs \in Seq(Renderer) /\ gs \in Seq(Renderer)
  /\ Len(fs) = Len(gs)
  /\ \A i \in 1..Len(fs) : Follows(fs[i], gs[i], d)

\* Lists of such.
LEMMA AllFollowWhen ==
  ASSUME NEW d, NEW n \in Nat, NEW f, f = [i \in 1..n |-> f[i]],
         NEW g, g = [i \in 1..n |-> g[i]], \A i \in 1..n : Follows(f[i], g[i], d)
  PROVE  AllFollow(f, g, d)
<1>1. \A i \in 1..n : f[i] \in Renderer /\ g[i] \in Renderer BY DEF Follows, Binds
<1>2. f \in [1..n -> Renderer] /\ g \in [1..n -> Renderer]
  <2> HIDE DEF Renderer
  <2> QED BY <1>1
<1>3. f \in Seq(Renderer) /\ Len(f) = n /\ g \in Seq(Renderer) /\ Len(g) = n
  <2> HIDE DEF Renderer
  <2> QED BY <1>2
<1> QED BY <1>3 DEF AllFollow

\* Two such lists, one after the other.
LEMMA AllFollowConcat ==
  ASSUME NEW d, NEW a, NEW b, NEW x, NEW y, AllFollow(a, x, d), AllFollow(b, y, d)
  PROVE  AllFollow(a \o b, x \o y, d)
<1>1. /\ a \in Seq(Renderer) /\ b \in Seq(Renderer) /\ x \in Seq(Renderer) /\ y \in Seq(Renderer)
      /\ Len(x) = Len(a) /\ Len(y) = Len(b)
  BY DEF AllFollow
<1>2. Len(a) \in Nat /\ Len(b) \in Nat BY <1>1
<1>3. /\ a \o b \in Seq(Renderer) /\ Len(a \o b) = Len(a) + Len(b)
      /\ \A i \in 1..(Len(a) + Len(b)) :
           (a \o b)[i] = IF i <= Len(a) THEN a[i] ELSE b[i - Len(a)]
  BY <1>1, ConcatProperties
<1>4. /\ x \o y \in Seq(Renderer) /\ Len(x \o y) = Len(a) + Len(b)
      /\ \A i \in 1..(Len(a) + Len(b)) :
           (x \o y)[i] = IF i <= Len(a) THEN x[i] ELSE y[i - Len(a)]
  <2>1. /\ x \o y \in Seq(Renderer) /\ Len(x \o y) = Len(x) + Len(y)
        /\ \A i \in 1..(Len(x) + Len(y)) :
             (x \o y)[i] = IF i <= Len(x) THEN x[i] ELSE y[i - Len(x)]
    BY <1>1, ConcatProperties
  <2> QED BY <1>1, <2>1
<1>5. ASSUME NEW i \in 1..Len(a \o b) PROVE Follows((a \o b)[i], (x \o y)[i], d)
  <2>1. CASE i <= Len(a)
    <3>1. i \in 1..Len(a) /\ i \in 1..(Len(a) + Len(b)) BY <1>2, <1>3, <2>1
    <3>2. (a \o b)[i] = a[i] /\ (x \o y)[i] = x[i] BY <1>3, <1>4, <2>1, <3>1
    <3> QED BY <3>1, <3>2 DEF AllFollow
  <2>2. CASE ~(i <= Len(a))
    <3>1. i - Len(a) \in 1..Len(b) /\ i \in 1..(Len(a) + Len(b)) BY <1>2, <1>3, <2>2
    <3>2. (a \o b)[i] = b[i - Len(a)] /\ (x \o y)[i] = y[i - Len(a)]
      BY <1>3, <1>4, <2>2, <3>1
    <3> QED BY <3>1, <3>2 DEF AllFollow
  <2> QED BY <2>1, <2>2
<1> QED BY <1>3, <1>4, <1>5 DEF AllFollow

\* All of such lists, rendered.
LEMMA ListsFollow ==
  ASSUME NEW d, NEW fs, NEW gs, AllFollow(fs, gs, d)
  PROVE  Follows([p \in Params |-> RenderAll(fs, p)], [p \in Params |-> RenderAll(gs, p)], d)
<1> DEFINE N == Len(fs)
           f == [p \in Params |-> RenderAll(fs, p)]
           g == [p \in Params |-> RenderAll(gs, p)]
           T == {n \in Nat : n <= N => Alike(Bound(fs, n), Bound(gs, n), d)}
<1>1. N \in Nat /\ Len(gs) = N BY DEF AllFollow
<1>2. \A i \in 1..N : Binds(fs[i]) /\ Binds(gs[i]) /\ Alike(Own(fs[i]), Own(gs[i]), d)
  BY DEF AllFollow, Follows
<1>3. /\ Binds(f) /\ Own(f) = Bound(fs, N) /\ Bound(fs, 0) = <<>>
      /\ \A n \in 1..N : Bound(fs, n) = Bound(fs, n - 1) \o Own(fs[n])
      /\ \A n \in 0..N : Bound(fs, n) \in Params
  BY <1>1, <1>2, RenderAllBinds
<1>4. /\ Binds(g) /\ Own(g) = Bound(gs, N) /\ Bound(gs, 0) = <<>>
      /\ \A n \in 1..N : Bound(gs, n) = Bound(gs, n - 1) \o Own(gs[n])
      /\ \A n \in 0..N : Bound(gs, n) \in Params
  BY <1>1, <1>2, RenderAllBinds
<1> HIDE DEF f, g, N
<1>5. 0 \in T
  <2>1. <<>> \in Params BY EmptySeq DEF Params
  <2> QED BY <1>3, <1>4, <2>1, AlikeItself
<1>6. ASSUME NEW n \in Nat, n \in T PROVE n + 1 \in T
  <2>1. SUFFICES ASSUME n + 1 <= N PROVE Alike(Bound(fs, n + 1), Bound(gs, n + 1), d)
    OBVIOUS
  <2>2. n + 1 \in 1..N /\ (n + 1) - 1 = n /\ n \in 0..N /\ n <= N BY <1>1, <2>1
  <2>3. Alike(Bound(fs, n), Bound(gs, n), d) BY <1>6, <2>2
  <2>4. /\ Bound(fs, n + 1) = Bound(fs, n) \o Own(fs[n + 1])
        /\ Bound(gs, n + 1) = Bound(gs, n) \o Own(gs[n + 1])
        /\ Bound(fs, n) \in Params /\ Bound(gs, n) \in Params
    BY <1>3, <1>4, <2>2
  <2>5. /\ Own(fs[n + 1]) \in Params /\ Own(gs[n + 1]) \in Params
        /\ Alike(Own(fs[n + 1]), Own(gs[n + 1]), d)
    BY <1>2, <2>2 DEF Binds
  <2> QED BY <2>3, <2>4, <2>5, AlikeConcat
<1>7. N \in T
  <2> HIDE DEF T
  <2> QED BY <1>1, <1>5, <1>6, Induction
<1>8. Follows(f, g, d) BY <1>1, <1>3, <1>4, <1>7 DEF Follows
<1> QED BY <1>8 DEF f, g

\* A text repeated binds nothing more.
LEMMA ThriceBinds ==
  ASSUME NEW r \in Rendering
  PROVE  Thrice(r) \in Rendering /\ Thrice(r).params = r.params
<1> DEFINE t == r.text
           u == (t \o t) \o t
<1>1. t \in Seq(Placeholder) /\ r = [text |-> t, params |-> r.params] /\ r.params \in Params
  BY DEF Rendering
<1>2. u \in Seq(Placeholder) BY <1>1
<1>3. Thrice(r) = [r EXCEPT !.text = u] BY <1>1 DEF Thrice
<1> HIDE DEF u, t
<1>4. Thrice(r) = [text |-> u, params |-> r.params] BY <1>1, <1>3
<1> QED BY <1>1, <1>2, <1>4 DEF Rendering

\* What an element binds.
ElementOwn(e, d, nested) ==
  CASE e.compare = "IS NULL" -> <<>>
    [] e.compare = "IN" /\ e.subQuery = <<>> -> e.values
    [] e.compare = "BETWEEN" -> <<e.values[1]>> \o <<e.values[2]>>
    [] e.compare = "DISTINCT" /\ d = "MSSQL" /\ e.subQuery = <<>> ->
         <<e.value, e.value, e.value>>
    [] OTHER -> RightOwn(e, nested)

SubBinds(e, nested) == e.subQuery # <<>> => Binds(nested[e.subQuery[1]])

\* A subquery binds its own, a value itself.
LEMMA RightSideBinds ==
  ASSUME NEW Q, NEW e \in Element(Q), NEW nested, SubBinds(e, nested)
  PROVE  /\ RightOwn(e, nested) \in Params
         /\ \A p \in Params : /\ RightSide(e, nested, p) \in Rendering
                              /\ RightSide(e, nested, p).params = p \o RightOwn(e, nested)
<1>1. CASE e.subQuery # <<>>
  <2> DEFINE f == nested[e.subQuery[1]]
  <2>1. Binds(f) BY <1>1 DEF SubBinds
  <2>2. RightOwn(e, nested) = Own(f) /\ \A p : RightSide(e, nested, p) = f[p]
    BY <1>1 DEF RightSide, RightOwn
  <2> HIDE DEF f
  <2> QED BY <2>1, <2>2 DEF Binds, Renderer
<1>2. CASE e.subQuery = <<>>
  <2> DEFINE v == e.value
  <2>1. v \in Operands BY DEF Element
  <2>2. RightOwn(e, nested) = <<v>> /\ \A p : RightSide(e, nested, p) = Bind(v, p)
    BY <1>2 DEF RightSide, RightOwn
  <2> HIDE DEF v
  <2>3. \A p \in Params : Sound(Bind(v, p), "Oracle", p) /\ Bind(v, p).params = p \o <<v>>
    BY <2>1, BindSound
  <2>4. <<v>> \in Params BY <2>1 DEF Params
  <2> QED BY <2>2, <2>3, <2>4 DEF Sound
<1> QED BY <1>1, <1>2

\* The element's toSql() binds just that.
LEMMA ElementBinds ==
  ASSUME NEW d, NEW Q, NEW e \in Element(Q), NEW nested, SubBinds(e, nested)
  PROVE  LET f == [p \in Params |-> ElementSql(e, d, nested, p)]
         IN  Binds(f) /\ Own(f) = ElementOwn(e, d, nested)
<1> DEFINE f == [p \in Params |-> ElementSql(e, d, nested, p)]
           w == RightOwn(e, nested)
           Right(p) == RightSide(e, nested, p)
<1>0. \A p \in Params : f[p] = ElementSql(e, d, nested, p) OBVIOUS
<1>f. f = [p \in Params |-> f[p]] OBVIOUS
<1>v. e.values \in Params /\ e.value \in Operands BY DEF Element, Params
<1>r. w \in Params /\ \A p \in Params : Right(p) \in Rendering /\ Right(p).params = p \o w
  BY RightSideBinds
<1>s. \/ e.compare = "IS NULL" \/ (e.compare = "IN" /\ e.subQuery = <<>>)
      \/ e.compare = "BETWEEN" \/ e.compare = "DISTINCT"
      \/ /\ e.compare # "IS NULL" /\ ~(e.compare = "IN" /\ e.subQuery = <<>>)
         /\ e.compare # "BETWEEN" /\ e.compare # "DISTINCT"
  OBVIOUS
<1> HIDE DEF f, w, Right
<1>1. CASE e.compare = "IS NULL"
  <2>1. \A p \in Params : f[p] = Nothing(p) BY <1>0, <1>1 DEF ElementSql
  <2>2. <<>> \in Params /\ <<>> \in Seq(Placeholder) BY EmptySeq DEF Params
  <2>3. \A p \in Params : p \o <<>> = p BY ConcatEmptySeq DEF Params
  <2>4. ASSUME NEW p \in Params PROVE f[p] \in Rendering /\ f[p].params = p \o <<>>
    <3>1. Nothing(p) \in Rendering /\ Nothing(p).params = p BY <2>2 DEF Nothing, Rendering
    <3> QED BY <2>1, <2>3, <3>1
  <2>5. Binds(f) /\ Own(f) = <<>> BY <1>f, <2>2, <2>4, BindsWhen
  <2>6. ElementOwn(e, d, nested) = <<>> BY <1>1 DEF ElementOwn
  <2> QED BY <2>5, <2>6 DEF f
<1>2. CASE e.compare = "IN" /\ e.subQuery = <<>>
  <2> DEFINE vs == e.values
  <2>1. \A p \in Params : f[p] = RenderAll(Binding(vs), p) BY <1>0, <1>2 DEF ElementSql
  <2>2. f = [p \in Params |-> RenderAll(Binding(vs), p)] BY <1>f, <2>1
  <2>3. vs \in Params BY <1>v
  <2> HIDE DEF vs
  <2>4. Binds(f) /\ Own(f) = vs BY <2>2, <2>3, BindingBinds
  <2>5. ElementOwn(e, d, nested) = vs BY <1>2 DEF ElementOwn, vs
  <2> QED BY <2>4, <2>5 DEF f
<1>3. CASE e.compare = "BETWEEN"
  <2>1. \A p \in Params : f[p] = BetweenSql(e, p) BY <1>0, <1>3 DEF ElementSql
  <2>2. e.values[1] \in Operands /\ e.values[2] \in Operands
    <3>1. Readable(e) BY DEF Element
    <3>2. Len(e.values) = 2 BY <1>3, <3>1 DEF Readable
    <3>3. e.values \in Seq(Operands) BY <1>v DEF Params
    <3> QED BY <3>2, <3>3
  <2> DEFINE z == <<e.values[1]>> \o <<e.values[2]>>
  <2>3. z \in Params BY <2>2 DEF Params
  <2>4. \A p \in Params : Sound(f[p], "Oracle", p) /\ f[p].params = p \o z
    BY <2>1, <2>2, BetweenSound
  <2>5. ElementOwn(e, d, nested) = z BY <1>3 DEF ElementOwn
  <2> HIDE DEF z
  <2>6. Binds(f) /\ Own(f) = z BY <1>f, <2>3, <2>4, BindsWhen DEF Sound
  <2> QED BY <2>5, <2>6 DEF f
<1>4. CASE e.compare = "DISTINCT"
  <2>1. CASE d = "Oracle" \/ (d = "MSSQL" /\ e.subQuery # <<>>)
    <3>1. \A p \in Params : f[p] = Thrice(Right(p))
      BY <1>0, <1>4, <2>1 DEF ElementSql, DistinctSql, Thrice, Right
    <3>2. \A p \in Params : f[p] \in Rendering /\ f[p].params = p \o w
      BY <1>r, <3>1, ThriceBinds
    <3>3. ElementOwn(e, d, nested) = w BY <1>4, <2>1 DEF ElementOwn, w
    <3>4. Binds(f) /\ Own(f) = w BY <1>f, <1>r, <3>2, BindsWhen
    <3> QED BY <3>3, <3>4 DEF f
  <2>2. CASE d = "MSSQL" /\ e.subQuery = <<>>
    <3> DEFINE vs == <<e.value, e.value, e.value>>
    <3>1. \A p \in Params : f[p] = RenderAll(Binding(vs), p)
      BY <1>0, <1>4, <2>2 DEF ElementSql, DistinctSql
    <3>2. f = [p \in Params |-> RenderAll(Binding(vs), p)] BY <1>f, <3>1
    <3>3. vs \in Params BY <1>v DEF Params
    <3>4. ElementOwn(e, d, nested) = vs BY <1>4, <2>2 DEF ElementOwn
    <3> HIDE DEF vs
    <3>5. Binds(f) /\ Own(f) = vs BY <3>2, <3>3, BindingBinds
    <3> QED BY <3>4, <3>5 DEF f
  <2>3. CASE ~(d = "Oracle" \/ d = "MSSQL")
    <3>1. \A p \in Params : f[p] = Right(p)
      BY <1>0, <1>4, <2>3 DEF ElementSql, DistinctSql, Right
    <3>2. ElementOwn(e, d, nested) = w BY <1>4, <2>3 DEF ElementOwn, w
    <3>3. Binds(f) /\ Own(f) = w BY <1>f, <1>r, <3>1, BindsWhen
    <3> QED BY <3>2, <3>3 DEF f
  <2> QED BY <2>1, <2>2, <2>3
<1>5. CASE /\ e.compare # "IS NULL" /\ ~(e.compare = "IN" /\ e.subQuery = <<>>)
           /\ e.compare # "BETWEEN" /\ e.compare # "DISTINCT"
  <2>1. \A p \in Params : f[p] = Right(p) BY <1>0, <1>5 DEF ElementSql, Right
  <2>2. ElementOwn(e, d, nested) = w BY <1>5 DEF ElementOwn, w
  <2>3. Binds(f) /\ Own(f) = w BY <1>f, <1>r, <2>1, BindsWhen
  <2> QED BY <2>2, <2>3 DEF f
<1> QED BY <1>s, <1>1, <1>2, <1>3, <1>4, <1>5

\* The values a free text has marks for.
FreeTextOwn(f) ==
  SubSeq(f.values, 1, IF f.marks < Len(f.values) THEN f.marks ELSE Len(f.values))

\* renderFreeText() binds these, be there marks left over or not.
LEMMA FreeTextBinds ==
  ASSUME NEW f \in Fragment
  PROVE  LET g == [p \in Params |-> FreeTextSql(f, p)]
         IN  Binds(g) /\ Own(g) = FreeTextOwn(f)
<1> DEFINE filled == IF f.marks < Len(f.values) THEN f.marks ELSE Len(f.values)
           bare == [i \in 1..(f.marks - filled) |-> [position |-> 0, operand |-> Null]]
           vs == FreeTextOwn(f)
           g == [p \in Params |-> FreeTextSql(f, p)]
           h == [p \in Params |-> RenderAll(Binding(vs), p)]
<1>1. f.marks \in Nat /\ f.values \in Seq(Operands) /\ Len(f.values) \in Nat BY DEF Fragment
<1>2. filled \in 0..Len(f.values) /\ f.marks - filled \in Nat BY <1>1
<1>3. vs \in Params
  <2>1. vs = SubSeq(f.values, 1, filled) BY DEF FreeTextOwn
  <2> HIDE DEF filled, vs
  <2>2. \A i \in 1..filled : f.values[i] \in Operands BY <1>1, <1>2
  <2> QED BY <1>1, <1>2, <2>1, <2>2, SubSeqProperties DEF Params
<1>4. bare \in Seq(Placeholder)
  <2>1. [position |-> 0, operand |-> Null] \in Placeholder BY DEF Placeholder, Operands
  <2> HIDE DEF filled
  <2> QED BY <1>2, <2>1
<1>5. \A p \in Params : h[p] = RenderAll(Binding(vs), p) OBVIOUS
<1>6. \A p \in Params : FreeTextSql(f, p) = [RenderAll(Binding(vs), p) EXCEPT !.text = @ \o bare]
  BY DEF FreeTextSql, FreeTextOwn
<1>7. \A p \in Params : g[p] = FreeTextSql(f, p) OBVIOUS
<1>8. g = [p \in Params |-> g[p]] OBVIOUS
<1>9. Binds(h) /\ Own(h) = vs
  <2> HIDE DEF vs
  <2> QED BY <1>3, BindingBinds
<1> HIDE DEF bare, vs, g, h, filled
<1>10. ASSUME NEW p \in Params PROVE g[p] \in Rendering /\ g[p].params = p \o vs
  <2> DEFINE r == h[p]
             t == r.text
  <2>1. r \in Rendering /\ r.params = p \o vs BY <1>9 DEF Binds, Renderer
  <2>2. g[p] = [r EXCEPT !.text = t \o bare] BY <1>5, <1>6, <1>7
  <2>3. t \in Seq(Placeholder) /\ r = [text |-> t, params |-> r.params] /\ r.params \in Params
    BY <2>1 DEF Rendering
  <2> HIDE DEF r, t
  <2>4. t \o bare \in Seq(Placeholder) BY <1>4, <2>3
  <2>5. g[p] = [text |-> t \o bare, params |-> r.params] BY <2>2, <2>3
  <2> QED BY <2>1, <2>3, <2>4, <2>5 DEF Rendering
<1>11. Binds(g) /\ Own(g) = vs BY <1>3, <1>8, <1>10, BindsWhen
<1> QED BY <1>11 DEF g, vs

\* An element follows when its subquery does.
SubFollows(e, d, nested, others) ==
  e.subQuery # <<>> => Follows(nested[e.subQuery[1]], others[e.subQuery[1]], d)

\* A driver without repeats stands for the others: any but MSSQL binds alike.
LEMMA ElementFollows ==
  ASSUME NEW d, NEW Q, NEW e \in Element(Q), NEW nested, NEW others,
         SubFollows(e, d, nested, others)
  PROVE  Follows([p \in Params |-> ElementSql(e, d, nested, p)],
                 [p \in Params |-> ElementSql(e, "PostgreSQL", others, p)], d)
<1> DEFINE f == [p \in Params |-> ElementSql(e, d, nested, p)]
           g == [p \in Params |-> ElementSql(e, "PostgreSQL", others, p)]
           w == RightOwn(e, nested)
           x == RightOwn(e, others)
<1>1. SubBinds(e, nested) /\ SubBinds(e, others) BY DEF SubFollows, Follows, SubBinds
<1>2. /\ Binds(f) /\ Own(f) = ElementOwn(e, d, nested)
      /\ Binds(g) /\ Own(g) = ElementOwn(e, "PostgreSQL", others)
  BY <1>1, ElementBinds
<1>3. w \in Params /\ x \in Params
  <2>1. <<>> \in Params BY EmptySeq DEF Params
  <2> QED BY <1>1, RightSideBinds
<1>v. e.value \in Operands BY DEF Element
<1>4. Alike(w, x, d)
  <2>1. CASE e.subQuery # <<>> BY <2>1 DEF SubFollows, Follows, RightOwn
  <2>2. CASE e.subQuery = <<>>
    <3>1. w = <<e.value>> /\ x = <<e.value>> BY <2>2 DEF RightOwn
    <3> HIDE DEF w, x
    <3> QED BY <1>3, <3>1, AlikeItself
  <2> QED BY <2>1, <2>2
<1> HIDE DEF f, g
<1>5. Alike(Own(f), Own(g), d)
  <2>1. CASE /\ e.compare = "DISTINCT" /\ d = "MSSQL" /\ e.subQuery = <<>>
    <3>1. /\ ElementOwn(e, d, nested) = <<e.value, e.value, e.value>>
          /\ ElementOwn(e, "PostgreSQL", others) = <<e.value>>
      BY <2>1 DEF ElementOwn, RightOwn
    <3> QED BY <1>2, <2>1, <3>1, ThreeStutter DEF Alike
  <2>2. CASE e.compare \in {"IS NULL", "BETWEEN"} \/ (e.compare = "IN" /\ e.subQuery = <<>>)
    <3>1. Own(f) = Own(g) BY <1>2, <2>2 DEF ElementOwn
    <3> QED BY <1>2, <3>1, AlikeItself DEF Binds
  <2>3. CASE /\ ~(e.compare = "DISTINCT" /\ d = "MSSQL" /\ e.subQuery = <<>>)
             /\ e.compare \notin {"IS NULL", "BETWEEN"}
             /\ ~(e.compare = "IN" /\ e.subQuery = <<>>)
    <3>1. ElementOwn(e, d, nested) = w /\ ElementOwn(e, "PostgreSQL", others) = x
      BY <2>3 DEF ElementOwn
    <3> QED BY <1>2, <1>4, <3>1
  <2> QED BY <2>1, <2>2, <2>3
<1> QED BY <1>2, <1>5 DEF Follows, f, g

\* A list of queries.
LEMMA QueriesFollow ==
  ASSUME NEW d, NEW Q, NEW qs \in Seq(Q), NEW nested, NEW others,
         \A n \in ToSet(qs) : Follows(nested[n], others[n], d)
  PROVE  AllFollow(Queries(qs, nested), Queries(qs, others), d)
<1> DEFINE f == Queries(qs, nested)
           g == Queries(qs, others)
<1>1. /\ Len(qs) \in Nat /\ DOMAIN qs = 1..Len(qs)
      /\ \A i \in 1..Len(qs) : qs[i] \in ToSet(qs)
  BY MembersAre
<1>2. f = [i \in 1..Len(qs) |-> f[i]] /\ g = [i \in 1..Len(qs) |-> g[i]]
  BY <1>1 DEF Queries
<1>3. \A i \in 1..Len(qs) : f[i] = nested[qs[i]] /\ g[i] = others[qs[i]]
  BY <1>1 DEF Queries
<1> HIDE DEF f, g
<1>4. \A i \in 1..Len(qs) : Follows(f[i], g[i], d) BY <1>1, <1>3
<1>5. AllFollow(f, g, d) BY <1>1, <1>2, <1>4, AllFollowWhen
<1> QED BY <1>5 DEF f, g

\* What binds nothing follows itself.
LEMMA SilentFollows ==
  ASSUME NEW d PROVE Follows(Silent, Silent, d)
<1>1. <<>> \in Params /\ <<>> \in Seq(Placeholder) BY EmptySeq DEF Params
<1>2. Silent = [p \in Params |-> Silent[p]] /\ \A p \in Params : Silent[p] = Nothing(p)
  BY DEF Silent
<1>3. \A p \in Params : p \o <<>> = p BY ConcatEmptySeq DEF Params
<1>4. ASSUME NEW p \in Params
      PROVE  Silent[p] \in Rendering /\ Silent[p].params = p \o <<>>
  <2>1. Nothing(p) \in Rendering /\ Nothing(p).params = p BY <1>1 DEF Nothing, Rendering
  <2> QED BY <1>2, <1>3, <2>1
<1>5. Binds(Silent) /\ Own(Silent) = <<>> BY <1>1, <1>2, <1>4, BindsWhen
<1> QED BY <1>1, <1>5, AlikeItself DEF Follows

\* A list of joins.
LEMMA JoinsFollow ==
  ASSUME NEW d, NEW Q, NEW js \in Seq(Join(Q)), NEW nested, NEW others,
         \A j \in ToSet(js) : j.asSubQuery => Follows(nested[j.query], others[j.query], d)
  PROVE  AllFollow(Joins(js, nested), Joins(js, others), d)
<1> DEFINE f == Joins(js, nested)
           g == Joins(js, others)
<1>1. /\ Len(js) \in Nat /\ DOMAIN js = 1..Len(js)
      /\ \A i \in 1..Len(js) : js[i] \in ToSet(js)
  BY MembersAre
<1>2. f = [i \in 1..Len(js) |-> f[i]] /\ g = [i \in 1..Len(js) |-> g[i]]
  BY <1>1 DEF Joins
<1>3. \A i \in 1..Len(js) :
        /\ f[i] = IF js[i].asSubQuery THEN nested[js[i].query] ELSE Silent
        /\ g[i] = IF js[i].asSubQuery THEN others[js[i].query] ELSE Silent
  BY <1>1 DEF Joins
<1> HIDE DEF f, g
<1>4. ASSUME NEW i \in 1..Len(js) PROVE Follows(f[i], g[i], d)
  <2>1. CASE js[i].asSubQuery BY <1>1, <1>3, <2>1
  <2>2. CASE ~js[i].asSubQuery BY <1>3, <2>2, SilentFollows
  <2> QED BY <2>1, <2>2
<1>5. AllFollow(f, g, d) BY <1>1, <1>2, <1>4, AllFollowWhen
<1> QED BY <1>5 DEF f, g

\* A list of conditions.
LEMMA ConditionsFollow ==
  ASSUME NEW d, NEW Q, NEW es \in Seq(Element(Q)), NEW nested, NEW others,
         \A e \in ToSet(es) : SubFollows(e, d, nested, others)
  PROVE  AllFollow(Conditions(es, d, nested), Conditions(es, "PostgreSQL", others), d)
<1> DEFINE f == Conditions(es, d, nested)
           g == Conditions(es, "PostgreSQL", others)
<1>1. /\ Len(es) \in Nat /\ DOMAIN es = 1..Len(es)
      /\ \A i \in 1..Len(es) : es[i] \in Element(Q) /\ es[i] \in ToSet(es)
  BY MembersAre
<1>2. f = [i \in 1..Len(es) |-> f[i]] /\ g = [i \in 1..Len(es) |-> g[i]]
  BY <1>1 DEF Conditions
<1>3. \A i \in 1..Len(es) :
        /\ f[i] = [p \in Params |-> ElementSql(es[i], d, nested, p)]
        /\ g[i] = [p \in Params |-> ElementSql(es[i], "PostgreSQL", others, p)]
  BY <1>1 DEF Conditions
<1> HIDE DEF f, g
<1>4. ASSUME NEW i \in 1..Len(es) PROVE Follows(f[i], g[i], d)
  <2> DEFINE e == es[i]
  <2>1. e \in Element(Q) /\ SubFollows(e, d, nested, others) BY <1>1
  <2> HIDE DEF e
  <2>2. Follows([p \in Params |-> ElementSql(e, d, nested, p)],
                [p \in Params |-> ElementSql(e, "PostgreSQL", others, p)], d)
    BY <2>1, ElementFollows
  <2> QED BY <1>3, <2>2 DEF e
<1>5. AllFollow(f, g, d) BY <1>1, <1>2, <1>4, AllFollowWhen
<1> QED BY <1>5 DEF f, g

\* A list of free texts.
LEMMA FreeTextsFollow ==
  ASSUME NEW d, NEW fs \in Seq(Fragment)
  PROVE  AllFollow(FreeTexts(fs), FreeTexts(fs), d)
<1> DEFINE g == FreeTexts(fs)
<1>1. /\ Len(fs) \in Nat /\ DOMAIN fs = 1..Len(fs)
      /\ \A i \in 1..Len(fs) : fs[i] \in Fragment
  BY MembersAre
<1>2. g = [i \in 1..Len(fs) |-> g[i]] BY <1>1 DEF FreeTexts
<1>3. \A i \in 1..Len(fs) : g[i] = [p \in Params |-> FreeTextSql(fs[i], p)]
  BY <1>1 DEF FreeTexts
<1> HIDE DEF g
<1>4. \A i \in 1..Len(fs) : Binds(g[i]) BY <1>1, <1>3, FreeTextBinds
<1>5. \A i \in 1..Len(fs) : Follows(g[i], g[i], d)
  BY <1>4, AlikeItself DEF Follows, Binds
<1>6. AllFollow(g, g, d) BY <1>1, <1>2, <1>5, AllFollowWhen
<1> QED BY <1>6 DEF g

\* A query's clauses follow when what it embeds does.
LEMMA ClausesFollow ==
  ASSUME NEW d, NEW Q, NEW q \in Query(Q), NEW nested, NEW others,
         \A n \in Nested(q) : Follows(nested[n], others[n], d)
  PROVE  AllFollow(Clauses(q, d, nested), Clauses(q, "PostgreSQL", others), d)
<1> DEFINE c1 == Queries(q.ctes, nested)
           c2 == Queries(q.from, nested)
           c3 == Joins(q.joins, nested)
           c4 == Conditions(q.where, d, nested)
           c5 == FreeTexts(q.free)
           c6 == Conditions(q.having, d, nested)
           c7 == Queries(q.sets, nested)
           g1 == Queries(q.ctes, others)
           g2 == Queries(q.from, others)
           g3 == Joins(q.joins, others)
           g4 == Conditions(q.where, "PostgreSQL", others)
           g6 == Conditions(q.having, "PostgreSQL", others)
           g7 == Queries(q.sets, others)
<1>0. /\ q.ctes \in Seq(Q) /\ q.from \in Seq(Q) /\ q.joins \in Seq(Join(Q))
      /\ q.where \in Seq(Element(Q)) /\ q.free \in Seq(Fragment)
      /\ q.having \in Seq(Element(Q)) /\ q.sets \in Seq(Q)
  BY DEF Query
<1>1. AllFollow(c1, g1, d) /\ AllFollow(c2, g2, d) /\ AllFollow(c7, g7, d)
  <2>1. /\ \A n \in ToSet(q.ctes) : Follows(nested[n], others[n], d)
        /\ \A n \in ToSet(q.from) : Follows(nested[n], others[n], d)
        /\ \A n \in ToSet(q.sets) : Follows(nested[n], others[n], d)
    BY DEF Nested
  <2> QED BY <1>0, <2>1, QueriesFollow
<1>3. AllFollow(c3, g3, d)
  <2>1. \A j \in ToSet(q.joins) : j.asSubQuery => Follows(nested[j.query], others[j.query], d)
    BY DEF Nested
  <2> QED BY <1>0, <2>1, JoinsFollow
<1>4. AllFollow(c4, g4, d) /\ AllFollow(c6, g6, d)
  <2>1. ASSUME NEW e \in Elements(q) PROVE SubFollows(e, d, nested, others)
    <3>1. SUFFICES ASSUME e.subQuery # <<>> PROVE e.subQuery[1] \in Nested(q)
      BY DEF SubFollows
    <3>2. e \in Element(Q)
      BY <1>0, MembersAre DEF Elements, ToSet
    <3>3. e.subQuery \in Seq(Q) BY <3>2 DEF Element
    <3>4. e.subQuery[1] \in ToSet(e.subQuery)
      <4>1. Len(e.subQuery) # 0 BY <3>1, <3>3
      <4>2. 1 \in DOMAIN e.subQuery BY <3>3, <4>1
      <4> QED BY <4>2 DEF ToSet
    <3> QED BY <3>4 DEF Nested
  <2>2. \A e \in ToSet(q.where) \cup ToSet(q.having) : SubFollows(e, d, nested, others)
    BY <2>1 DEF Elements
  <2> QED BY <1>0, <2>2, ConditionsFollow
<1>5. AllFollow(c5, c5, d) BY <1>0, FreeTextsFollow
<1>6. /\ Clauses(q, d, nested) = (((((c1 \o c2) \o c3) \o c4) \o c5) \o c6) \o c7
      /\ Clauses(q, "PostgreSQL", others) = (((((g1 \o g2) \o g3) \o g4) \o c5) \o g6) \o g7
  BY DEF Clauses
<1> HIDE DEF c1, c2, c3, c4, c5, c6, c7, g1, g2, g3, g4, g6, g7
<1>7. AllFollow(((c1 \o c2) \o c3) \o c4, ((g1 \o g2) \o g3) \o g4, d)
  BY <1>1, <1>3, <1>4, AllFollowConcat
<1>8. AllFollow((((((c1 \o c2) \o c3) \o c4) \o c5) \o c6) \o c7,
                (((((g1 \o g2) \o g3) \o g4) \o c5) \o g6) \o g7, d)
  BY <1>1, <1>4, <1>5, <1>7, AllFollowConcat
<1> QED BY <1>6, <1>8

\* What a query embeds.
LEMMA EmbeddingFollows ==
  ASSUME NEW d, NEW q \in Query(InnerQuery)
  PROVE  \A n \in Nested(q) : Follows(Embedding(q, d)[n], Embedding(q, "PostgreSQL")[n], d)
<1> SUFFICES ASSUME NEW n \in Nested(q)
             PROVE  Follows(Embedding(q, d)[n], Embedding(q, "PostgreSQL")[n], d)
  OBVIOUS
<1> DEFINE c == Clauses(n, d, <<>>)
           g == Clauses(n, "PostgreSQL", <<>>)
<1>1. n \in InnerQuery /\ n \in Query({}) BY NestedInner DEF InnerQuery
<1>2. AllFollow(c, g, d) BY <1>1, InnerEmbedsNone, ClausesFollow
<1>3. /\ Embedding(q, d)[n] = [p \in Params |-> RenderAll(c, p)]
      /\ Embedding(q, "PostgreSQL")[n] = [p \in Params |-> RenderAll(g, p)]
  BY DEF Embedding, EmbeddedSql
<1> HIDE DEF c, g
<1> QED BY <1>2, <1>3, ListsFollow

\* QcSqlQuery::toSql() binds the same on d as on another driver, repeats apart.
LEMMA QueryFollows ==
  ASSUME NEW d, NEW q \in Query(InnerQuery)
  PROVE  LET mine == QuerySql(q, d, <<>>).params
             reference == QuerySql(q, "PostgreSQL", <<>>).params
         IN  mine \in Params /\ reference \in Params /\ Alike(mine, reference, d)
<1> DEFINE c == Clauses(q, d, Embedding(q, d))
           g == Clauses(q, "PostgreSQL", Embedding(q, "PostgreSQL"))
           u == [p \in Params |-> RenderAll(c, p)]
           w == [p \in Params |-> RenderAll(g, p)]
<1>1. AllFollow(c, g, d) BY EmbeddingFollows, ClausesFollow
<1>2. Follows(u, w, d)
  <2> HIDE DEF c, g
  <2> QED BY <1>1, ListsFollow
<1>3. <<>> \in Params BY EmptySeq DEF Params
<1>4. QuerySql(q, d, <<>>) = u[<<>>] /\ QuerySql(q, "PostgreSQL", <<>>) = w[<<>>]
  BY <1>3 DEF QuerySql
<1> HIDE DEF u, w
<1> QED BY <1>2, <1>4 DEF Follows, Binds, Own

\* What the set() calls assign.
LEMMA AssignedTyped ==
  ASSUME NEW Q, NEW q \in Query(Q)
  PROVE  /\ Assigned(q) \in Params /\ Len(Assigned(q)) = Len(q.assign)
         /\ \A i \in 1..Len(q.assign) : Assigned(q)[i] = q.assign[i].value
<1>1. q.assign \in Seq(Assignment) BY DEF Query
<1>2. /\ Len(q.assign) \in Nat /\ DOMAIN q.assign = 1..Len(q.assign)
      /\ \A i \in 1..Len(q.assign) : q.assign[i] \in Assignment
  BY <1>1
<1>3. \A i \in 1..Len(q.assign) : q.assign[i].value \in Operands BY <1>2 DEF Assignment
<1>4. Assigned(q) = [i \in 1..Len(q.assign) |-> q.assign[i].value] BY <1>2 DEF Assigned
<1>5. Assigned(q) \in [1..Len(q.assign) -> Operands] BY <1>3, <1>4
<1> QED BY <1>2, <1>4, <1>5 DEF Params

\* The other three builders' toSql().
LEMMA ChangesFollow ==
  ASSUME NEW d, NEW q \in Query(InnerQuery)
  PROVE  LET mine == ChangesSql(q, d, <<>>).params
             reference == ChangesSql(q, "PostgreSQL", <<>>).params
         IN  mine \in Params /\ reference \in Params /\ Alike(mine, reference, d)
<1> DEFINE values == Assigned(q)
           b == Binding(values)
           c == Conditions(q.where, d, Embedding(q, d))
           g == Conditions(q.where, "PostgreSQL", Embedding(q, "PostgreSQL"))
           u == [p \in Params |-> RenderAll(b \o c, p)]
           w == [p \in Params |-> RenderAll(b \o g, p)]
<1>1. values \in Params BY AssignedTyped
<1>2. AllFollow(b, b, d)
  <2> HIDE DEF values
  <2>1. DOMAIN values = 1..Len(values) /\ Len(values) \in Nat /\ \A i \in 1..Len(values) : values[i] \in Operands
    BY <1>1 DEF Params
  <2>2. b = [i \in 1..Len(values) |-> b[i]] BY <2>1 DEF Binding
  <2>3. \A i \in 1..Len(values) : b[i] = [p \in Params |-> Bind(values[i], p)]
    BY <2>1 DEF Binding
  <2> HIDE DEF b
  <2>4. ASSUME NEW i \in 1..Len(values) PROVE Follows(b[i], b[i], d)
    <3> DEFINE v == values[i]
               f == b[i]
    <3>1. v \in Operands /\ f = [p \in Params |-> Bind(v, p)] BY <2>1, <2>3
    <3> HIDE DEF v, f
    <3>2. f = [p \in Params |-> f[p]] /\ \A p \in Params : f[p] = Bind(v, p) BY <3>1
    <3>3. <<v>> \in Params BY <3>1 DEF Params
    <3>4. \A p \in Params : Sound(f[p], "Oracle", p) /\ f[p].params = p \o <<v>>
      BY <3>1, <3>2, BindSound
    <3>5. Binds(f) BY <3>2, <3>3, <3>4, BindsWhen DEF Sound
    <3> QED BY <3>5, AlikeItself DEF Follows, Binds, f
  <2> QED BY <2>1, <2>2, <2>4, AllFollowWhen
<1>3. AllFollow(c, g, d)
  <2>1. q.where \in Seq(Element(InnerQuery)) BY DEF Query
  <2>2. ASSUME NEW e \in ToSet(q.where)
        PROVE  SubFollows(e, d, Embedding(q, d), Embedding(q, "PostgreSQL"))
    <3>1. SUFFICES ASSUME e.subQuery # <<>> PROVE e.subQuery[1] \in Nested(q)
      BY EmbeddingFollows DEF SubFollows
    <3>2. e \in Element(InnerQuery) BY <2>1, MembersAre DEF ToSet
    <3>3. e.subQuery \in Seq(InnerQuery) BY <3>2 DEF Element
    <3>4. e.subQuery[1] \in ToSet(e.subQuery)
      <4>1. Len(e.subQuery) # 0 BY <3>1, <3>3
      <4>2. 1 \in DOMAIN e.subQuery BY <3>3, <4>1
      <4> QED BY <4>2 DEF ToSet
    <3> QED BY <3>4 DEF Nested, Elements
  <2> QED BY <2>1, <2>2, ConditionsFollow
<1> HIDE DEF values, b, c, g
<1>4. AllFollow(b \o c, b \o g, d) BY <1>2, <1>3, AllFollowConcat
<1>5. Follows(u, w, d)
  <2> DEFINE x == b \o c
             y == b \o g
  <2> HIDE DEF x, y
  <2>1. Follows([p \in Params |-> RenderAll(x, p)], [p \in Params |-> RenderAll(y, p)], d)
    BY <1>4, ListsFollow DEF x, y
  <2> QED BY <2>1 DEF x, y
<1>6. <<>> \in Params BY EmptySeq DEF Params
<1>7. ChangesSql(q, d, <<>>) = u[<<>>] /\ ChangesSql(q, "PostgreSQL", <<>>) = w[<<>>]
  BY <1>6 DEF ChangesSql, values, b, c, g
<1> HIDE DEF u, w
<1> QED BY <1>5, <1>7 DEF Follows, Binds, Own

-----------------------------------------------------------------------------
(* Collapsed.                                                              *)

\* f has s up to n without repeats.
AreCollapsed(f, s, N) ==
  f = [n \in 0..N |-> IF n = 0 THEN <<>>
                      ELSE IF n > 1 /\ s[n] = s[n - 1] THEN f[n - 1]
                      ELSE Append(f[n - 1], s[n])]
CollapsedUpTo(s) == CHOOSE f : AreCollapsed(f, s, Len(s))

\* There is a function as Collapsed defines it by recursion.
LEMMA CollapsedExist ==
  ASSUME NEW s, NEW N \in Nat
  PROVE  \E f : AreCollapsed(f, s, N)
<1> DEFINE next(before, n) == IF n > 1 /\ s[n] = s[n - 1] THEN before ELSE Append(before, s[n])
           IsIt(f, m) == f = [n \in 0..m |-> IF n = 0 THEN <<>> ELSE next(f[n - 1], n)]
           T == {m \in Nat : \E f : IsIt(f, m)}
<1>a. ASSUME NEW f, NEW m \in Nat PROVE IsIt(f, m) <=> AreCollapsed(f, s, m)
  <2> DEFINE F == [n \in 0..m |-> IF n = 0 THEN <<>> ELSE next(f[n - 1], n)]
             G == [n \in 0..m |-> IF n = 0 THEN <<>>
                                  ELSE IF n > 1 /\ s[n] = s[n - 1] THEN f[n - 1]
                                  ELSE Append(f[n - 1], s[n])]
  <2>1. \A n \in 0..m : F[n] = G[n] OBVIOUS
  <2>2. F = G BY <2>1
  <2>3. IsIt(f, m) <=> f = F OBVIOUS
  <2>4. AreCollapsed(f, s, m) <=> f = G BY DEF AreCollapsed
  <2> HIDE DEF F, G, IsIt
  <2> QED BY <2>2, <2>3, <2>4
<1> HIDE DEF next
<1>1. 0 \in T
  <2>1. IsIt([n \in 0..0 |-> <<>>], 0) OBVIOUS
  <2> QED BY <2>1
<1>2. ASSUME NEW m \in Nat, m \in T PROVE m + 1 \in T
  <2>1. PICK f : IsIt(f, m) BY <1>2
  <2>2. ASSUME NEW n \in 0..m
        PROVE  f[n] = IF n = 0 THEN <<>> ELSE next(f[n - 1], n)
    <3> DEFINE F == [k \in 0..m |-> IF k = 0 THEN <<>> ELSE next(f[k - 1], k)]
    <3>1. F[n] = IF n = 0 THEN <<>> ELSE next(f[n - 1], n) OBVIOUS
    <3>2. f = F BY <2>1
    <3> QED BY <3>1, <3>2, Zenon
  <2> DEFINE g == [n \in 0..(m + 1) |-> IF n = m + 1 THEN next(f[n - 1], n) ELSE f[n]]
             h == [n \in 0..(m + 1) |-> IF n = 0 THEN <<>> ELSE next(g[n - 1], n)]
  <2>3. ASSUME NEW n \in 0..(m + 1) PROVE g[n] = h[n]
    <3>0. g[n] = IF n = m + 1 THEN next(f[n - 1], n) ELSE f[n] OBVIOUS
    <3>1. h[n] = IF n = 0 THEN <<>> ELSE next(g[n - 1], n) OBVIOUS
    <3>2. CASE n = 0
      BY <3>2, <3>0, <3>1, <2>2
    <3>3. CASE n \in 1..(m + 1)
      <4>1. n - 1 \in 0..(m + 1) /\ n - 1 # m + 1 /\ n # 0 BY <3>3
      <4>2. g[n - 1] = f[n - 1] BY <4>1
      <4>3. h[n] = next(f[n - 1], n) BY <4>1, <4>2, <3>1
      <4>4. n # m + 1 => n \in 0..m BY <3>3
      <4>5. g[n] = next(f[n - 1], n) BY <4>1, <4>4, <3>0, <2>2
      <4> QED BY <4>3, <4>5
    <3> QED BY <3>2, <3>3
  <2>4. g = h
    <3>1. \A n \in 0..(m + 1) : g[n] = h[n] BY <2>3
    <3> QED BY <3>1
  <2>5. IsIt(g, m + 1) BY <2>4
  <2>6. \E e : IsIt(e, m + 1) BY <2>5, Zenon
  <2>7. m + 1 \in Nat OBVIOUS
  <2> QED BY <2>6, <2>7, Zenon
<1>3. N \in T
  <2> HIDE DEF T
  <2> QED BY <1>1, <1>2, Induction
<1>4. PICK f : IsIt(f, N) BY <1>3
<1>5. AreCollapsed(f, s, N) BY <1>4, <1>a
<1> QED BY <1>5

\* What it is then.
LEMMA CollapsedAre ==
  ASSUME NEW s \in Params
  PROVE  /\ Collapsed(s) = CollapsedUpTo(s)[Len(s)]
         /\ CollapsedUpTo(s)[0] = <<>>
         /\ \A n \in 1..Len(s) :
              CollapsedUpTo(s)[n] =
                IF n > 1 /\ s[n] = s[n - 1] THEN CollapsedUpTo(s)[n - 1]
                                            ELSE Append(CollapsedUpTo(s)[n - 1], s[n])
<1> DEFINE c == CollapsedUpTo(s)
           F == [n \in 0..Len(s) |-> IF n = 0 THEN <<>>
                                     ELSE IF n > 1 /\ s[n] = s[n - 1] THEN c[n - 1]
                                     ELSE Append(c[n - 1], s[n])]
<1>0. Len(s) \in Nat BY DEF Params
<1>1. \E f : AreCollapsed(f, s, Len(s)) BY <1>0, CollapsedExist
<1>2. c = F
  <2>1. AreCollapsed(c, s, Len(s)) BY <1>1 DEF CollapsedUpTo
  <2> QED BY <2>1 DEF AreCollapsed
<1>3. Collapsed(s) = c[Len(s)]
  BY DEF Collapsed, CollapsedUpTo, AreCollapsed
<1>4. \A n \in 0..Len(s) : F[n] = IF n = 0 THEN <<>>
                                  ELSE IF n > 1 /\ s[n] = s[n - 1] THEN c[n - 1]
                                  ELSE Append(c[n - 1], s[n])
  OBVIOUS
<1> HIDE DEF c, F
<1>5. \A n \in 0..Len(s) : c[n] = IF n = 0 THEN <<>>
                                  ELSE IF n > 1 /\ s[n] = s[n - 1] THEN c[n - 1]
                                  ELSE Append(c[n - 1], s[n])
  BY <1>2, <1>4, Zenon
<1>6. c[0] = <<>> BY <1>0, <1>5
<1>7. \A n \in 1..Len(s) : c[n] = IF n > 1 /\ s[n] = s[n - 1] THEN c[n - 1]
                                  ELSE Append(c[n - 1], s[n])
  BY <1>0, <1>5
<1> QED BY <1>3, <1>6, <1>7 DEF c

\* A list with repeats collapses to what the list without does.
LEMMA StuttersCollapse ==
  ASSUME NEW s \in Params, NEW t \in Params, Stutters(s, t)
  PROVE  Collapsed(s) = Collapsed(t)
<1> DEFINE c == CollapsedUpTo(s)
           e == CollapsedUpTo(t)
           N == Len(s)
<1>1. N \in Nat /\ Len(t) \in Nat BY DEF Params
<1>2. PICK at : StuttersBy(s, t, at) BY DEF Stutters
<1>3. /\ at \in [0..N -> 0..Len(t)] /\ at[0] = 0 /\ at[N] = Len(t)
      /\ \A i \in 1..N : /\ at[i] >= 1 /\ (at[i] = at[i - 1] \/ at[i] = at[i - 1] + 1)
                         /\ s[i] = t[at[i]]
  BY <1>2 DEF StuttersBy
<1>4. /\ Collapsed(s) = c[N] /\ c[0] = <<>>
      /\ \A n \in 1..N : c[n] = IF n > 1 /\ s[n] = s[n - 1] THEN c[n - 1]
                                ELSE Append(c[n - 1], s[n])
  BY CollapsedAre
<1>5. /\ Collapsed(t) = e[Len(t)] /\ e[0] = <<>>
      /\ \A n \in 1..Len(t) : e[n] = IF n > 1 /\ t[n] = t[n - 1] THEN e[n - 1]
                                     ELSE Append(e[n - 1], t[n])
  BY CollapsedAre
<1> HIDE DEF c, e, N
<1> DEFINE T == {n \in Nat : n <= N => c[n] = e[at[n]]}
<1>6. 0 \in T BY <1>3, <1>4, <1>5
<1>7. ASSUME NEW n \in Nat, n \in T PROVE n + 1 \in T
  <2>1. SUFFICES ASSUME n + 1 <= N PROVE c[n + 1] = e[at[n + 1]]
    OBVIOUS
  <2> DEFINE i == n + 1
             k == at[n]
             m == at[i]
  <2>2. /\ i \in 1..N /\ i - 1 = n /\ n <= N /\ n \in 0..N /\ i \in 0..N
        /\ (n = 0 \/ n \in 1..N)
    BY <1>1, <2>1
  <2>3. c[n] = e[k] BY <1>7, <2>2
  <2>4. /\ m >= 1 /\ (m = k \/ m = k + 1) /\ s[i] = t[m]
        /\ k \in 0..Len(t) /\ m \in 0..Len(t)
    BY <1>3, <2>2
  <2>5. n = 0 => k = 0 BY <1>3
  <2>6. n \in 1..N => k >= 1 /\ s[n] = t[k] BY <1>3
  <2>7. c[i] = IF i > 1 /\ s[i] = s[n] THEN c[n] ELSE Append(c[n], s[i]) BY <1>4, <2>2
  <2>8. m \in 1..Len(t) BY <1>1, <2>4
  <2>9. e[m] = IF m > 1 /\ t[m] = t[m - 1] THEN e[m - 1] ELSE Append(e[m - 1], t[m])
    BY <1>5, <2>8
  <2>10. i > 1 <=> n \in 1..N BY <2>2
  <2> HIDE DEF i, k, m
  <2>11. CASE n = 0
    <3>1. k = 0 /\ m = 1 /\ ~(i > 1) BY <2>4, <2>5, <2>11 DEF i
    <3>2. c[i] = Append(e[0], t[1]) BY <2>3, <2>4, <2>7, <3>1
    <3>3. e[1] = Append(e[0], t[1]) BY <2>9, <3>1
    <3> QED BY <3>1, <3>2, <3>3 DEF i, m
  <2>12. CASE n \in 1..N /\ m = k
    <3>1. i > 1 /\ s[i] = s[n] BY <2>4, <2>6, <2>10, <2>12
    <3> QED BY <2>3, <2>7, <2>12, <3>1 DEF i, m
  <2>13. CASE n \in 1..N /\ m = k + 1
    <3>1. i > 1 /\ m > 1 /\ m - 1 = k BY <2>4, <2>6, <2>10, <2>13
    <3>2. e[m] = IF t[m] = t[k] THEN e[k] ELSE Append(e[k], t[m]) BY <2>9, <3>1
    <3>3. c[i] = IF t[m] = t[k] THEN e[k] ELSE Append(e[k], t[m])
      BY <2>3, <2>4, <2>6, <2>7, <2>13, <3>1
    <3> QED BY <3>2, <3>3 DEF i, m
  <2> QED BY <2>2, <2>4, <2>11, <2>12, <2>13
<1>8. N \in T
  <2> HIDE DEF T
  <2> QED BY <1>1, <1>6, <1>7, Induction
<1> QED BY <1>1, <1>3, <1>4, <1>5, <1>8

\* A builder binds on a driver what it binds on another.
LEMMA RenderedFollows ==
  ASSUME TypeOK, NEW d
  PROVE  /\ Rendered(d).params \in Params /\ Rendered("PostgreSQL").params \in Params
         /\ Alike(Rendered(d).params, Rendered("PostgreSQL").params, d)
<1>1. Outer \in Query(InnerQuery) BY DEF TypeOK, Outer
<1>2. CASE kind = "select" BY <1>1, <1>2, QueryFollows DEF Rendered
<1>3. CASE kind # "select"
  <2>1. \A x : Rendered(x).params = ChangesSql(Outer, x, <<>>).params
    BY <1>3 DEF Rendered, ChangeSql
  <2> QED BY <1>1, <2>1, ChangesFollow
<1> QED BY <1>2, <1>3

\* Whatever calls made the builder, it binds the same values in the same order
\* for every driver, but that MSSQL gets some more than once, one after the other.
THEOREM SameValuesBound == Spec => []SameValuesEverywhere
<1>1. ASSUME TypeOK PROVE SameValuesEverywhere
  <2>1. ASSUME NEW d \in Driver \ {"MSSQL"}
        PROVE  Rendered(d).params = Rendered("PostgreSQL").params
    BY <1>1, <2>1, RenderedFollows DEF Alike
  <2>2. Collapsed(Rendered("MSSQL").params) = Collapsed(Rendered("PostgreSQL").params)
    <3>1. /\ Rendered("MSSQL").params \in Params /\ Rendered("PostgreSQL").params \in Params
          /\ Stutters(Rendered("MSSQL").params, Rendered("PostgreSQL").params)
      BY <1>1, RenderedFollows DEF Alike
    <3> QED BY <3>1, StuttersCollapse
  <2> QED BY <2>1, <2>2 DEF SameValuesEverywhere
<1> QED BY <1>1, TypeCorrect, PTL

-----------------------------------------------------------------------------
(* No operand lost, none that is not asked for.                            *)

\* The members of two sequences, one after the other.
LEMMA ToSetConcat ==
  ASSUME NEW S, NEW s \in Seq(S), NEW t \in Seq(S)
  PROVE  ToSet(s \o t) = ToSet(s) \cup ToSet(t)
<1> DEFINE a == Len(s)
           b == Len(t)
           u == s \o t
<1>1. a \in Nat /\ b \in Nat /\ DOMAIN s = 1..a /\ DOMAIN t = 1..b OBVIOUS
<1>2. u \in Seq(S) /\ Len(u) = a + b /\ \A i \in 1..(a + b) : u[i] = IF i <= a THEN s[i] ELSE t[i - a]
  BY ConcatProperties
<1> HIDE DEF a, b, u
<1>3. DOMAIN u = 1..(a + b) BY <1>2
<1>4. ASSUME NEW x \in ToSet(u) PROVE x \in ToSet(s) \cup ToSet(t)
  <2>1. PICK i \in 1..(a + b) : x = u[i] BY <1>3 DEF ToSet
  <2>2. CASE i <= a
    <3>1. i \in DOMAIN s /\ x = s[i] BY <1>1, <1>2, <2>1, <2>2
    <3> QED BY <3>1 DEF ToSet
  <2>3. CASE ~(i <= a)
    <3>1. i - a \in DOMAIN t /\ x = t[i - a] BY <1>1, <1>2, <2>1, <2>3
    <3> QED BY <3>1 DEF ToSet
  <2> QED BY <2>2, <2>3
<1>5. ASSUME NEW i \in 1..a PROVE s[i] \in ToSet(u)
  <2>1. i \in 1..(a + b) /\ u[i] = s[i] BY <1>1, <1>2
  <2> QED BY <1>3, <2>1 DEF ToSet
<1>6. ASSUME NEW i \in 1..b PROVE t[i] \in ToSet(u)
  <2>1. a + i \in 1..(a + b) /\ ~(a + i <= a) /\ (a + i) - a = i BY <1>1
  <2>2. u[a + i] = t[i] BY <1>2, <2>1
  <2> QED BY <1>3, <2>1, <2>2 DEF ToSet
<1>7. ToSet(s) = {s[i] : i \in 1..a} /\ ToSet(t) = {t[i] : i \in 1..b} BY <1>1 DEF ToSet
<1>8. ToSet(u) = ToSet(s) \cup ToSet(t) BY <1>4, <1>5, <1>6, <1>7
<1> QED BY <1>8 DEF u

\* A list with repeats has the values of the one without.
LEMMA StuttersMembers ==
  ASSUME NEW s \in Params, NEW t \in Params, Stutters(s, t)
  PROVE  ToSet(s) = ToSet(t)
<1> DEFINE N == Len(s)
<1>1. /\ N \in Nat /\ Len(t) \in Nat
      /\ ToSet(s) = {s[i] : i \in 1..N} /\ ToSet(t) = {t[i] : i \in 1..Len(t)}
  BY DEF Params, ToSet
<1>2. PICK at : StuttersBy(s, t, at) BY DEF Stutters
<1>3. /\ at \in [0..N -> 0..Len(t)] /\ at[0] = 0 /\ at[N] = Len(t)
      /\ \A i \in 1..N : /\ at[i] >= 1 /\ (at[i] = at[i - 1] \/ at[i] = at[i - 1] + 1)
                         /\ s[i] = t[at[i]]
  BY <1>2 DEF StuttersBy
<1> HIDE DEF N
<1>4. ASSUME NEW i \in 1..N PROVE s[i] \in ToSet(t)
  <2>1. at[i] \in 1..Len(t) /\ s[i] = t[at[i]] BY <1>1, <1>3
  <2> QED BY <1>1, <2>1
<1> DEFINE T == {n \in Nat : n <= N => \A k \in 1..at[n] : t[k] \in ToSet(s)}
<1>5. 0 \in T BY <1>3
<1>6. ASSUME NEW n \in Nat, n \in T PROVE n + 1 \in T
  <2>1. SUFFICES ASSUME n + 1 <= N, NEW k \in 1..at[n + 1] PROVE t[k] \in ToSet(s)
    OBVIOUS
  <2>2. n + 1 \in 1..N /\ (n + 1) - 1 = n /\ n <= N /\ n \in 0..N /\ n + 1 \in 0..N
    BY <1>1, <2>1
  <2>3. /\ at[n + 1] = at[n] \/ at[n + 1] = at[n] + 1
        /\ s[n + 1] = t[at[n + 1]] /\ at[n] \in Nat /\ at[n + 1] \in Nat
    BY <1>1, <1>3, <2>2
  <2>4. k \in 1..at[n] \/ k = at[n + 1] BY <2>3
  <2>5. \A j \in 1..at[n] : t[j] \in ToSet(s) BY <1>6, <2>2
  <2>6. s[n + 1] \in ToSet(s) BY <1>1, <2>2
  <2> QED BY <2>3, <2>4, <2>5, <2>6
<1>7. N \in T
  <2> HIDE DEF T
  <2> QED BY <1>1, <1>5, <1>6, Induction
<1>8. \A k \in 1..Len(t) : t[k] \in ToSet(s) BY <1>1, <1>3, <1>7
<1> QED BY <1>1, <1>4, <1>8

\* What a list of renderers binds altogether.
Owned(fs) == UNION {ToSet(Own(fs[i])) : i \in 1..Len(fs)}
AllBind(fs) == fs \in Seq(Renderer) /\ \A i \in 1..Len(fs) : Binds(fs[i])

\* Rendering the list binds that.
LEMMA ListOwned ==
  ASSUME NEW fs, AllBind(fs)
  PROVE  ToSet(Own([p \in Params |-> RenderAll(fs, p)])) = Owned(fs)
<1> DEFINE N == Len(fs)
           f == [p \in Params |-> RenderAll(fs, p)]
           T == {n \in Nat : n <= N =>
                   ToSet(Bound(fs, n)) = UNION {ToSet(Own(fs[i])) : i \in 1..n}}
<1>1. N \in Nat /\ \A i \in 1..N : Binds(fs[i]) BY DEF AllBind
<1>2. /\ Binds(f) /\ Own(f) = Bound(fs, N) /\ Bound(fs, 0) = <<>>
      /\ \A n \in 1..N : Bound(fs, n) = Bound(fs, n - 1) \o Own(fs[n])
      /\ \A n \in 0..N : Bound(fs, n) \in Params
  BY <1>1, RenderAllBinds
<1> HIDE DEF f, N
<1>3. 0 \in T
  <2>1. ToSet(<<>>) = {} BY DEF ToSet
  <2> QED BY <1>2, <2>1
<1>4. ASSUME NEW n \in Nat, n \in T PROVE n + 1 \in T
  <2>1. SUFFICES ASSUME n + 1 <= N
                 PROVE  ToSet(Bound(fs, n + 1)) = UNION {ToSet(Own(fs[i])) : i \in 1..(n + 1)}
    OBVIOUS
  <2>2. n + 1 \in 1..N /\ (n + 1) - 1 = n /\ n <= N /\ n \in 0..N BY <1>1, <2>1
  <2>3. /\ Bound(fs, n + 1) = Bound(fs, n) \o Own(fs[n + 1])
        /\ Bound(fs, n) \in Seq(Operands) /\ Own(fs[n + 1]) \in Seq(Operands)
    BY <1>1, <1>2, <2>2 DEF Binds, Params
  <2>4. ToSet(Bound(fs, n + 1)) = ToSet(Bound(fs, n)) \cup ToSet(Own(fs[n + 1]))
    BY <2>3, ToSetConcat
  <2>5. ToSet(Bound(fs, n)) = UNION {ToSet(Own(fs[i])) : i \in 1..n} BY <1>4, <2>2
  <2>6. 1..(n + 1) = (1..n) \cup {n + 1} OBVIOUS
  <2> QED BY <2>4, <2>5, <2>6
<1>5. N \in T
  <2> HIDE DEF T
  <2> QED BY <1>1, <1>3, <1>4, Induction
<1> QED BY <1>1, <1>2, <1>5 DEF Owned, f, N

\* Two lists, one after the other.
LEMMA OwnedConcat ==
  ASSUME NEW a, NEW b, AllBind(a), AllBind(b)
  PROVE  AllBind(a \o b) /\ Owned(a \o b) = Owned(a) \cup Owned(b)
<1> DEFINE m == Len(a)
           n == Len(b)
           c == a \o b
<1>1. /\ a \in Seq(Renderer) /\ b \in Seq(Renderer) /\ m \in Nat /\ n \in Nat
  BY DEF AllBind
<1>2. c \in Seq(Renderer) /\ Len(c) = m + n /\ \A i \in 1..(m + n) : c[i] = IF i <= m THEN a[i] ELSE b[i - m]
  BY <1>1, ConcatProperties
<1>4. Owned(a) = UNION {ToSet(Own(a[i])) : i \in 1..m} /\ Owned(b) = UNION {ToSet(Own(b[i])) : i \in 1..n}
  BY DEF Owned
<1>5. Owned(c) = UNION {ToSet(Own(c[i])) : i \in 1..(m + n)} BY <1>2 DEF Owned
<1>a. \A i \in 1..m : Binds(a[i]) BY DEF AllBind
<1>b. \A i \in 1..n : Binds(b[i]) BY DEF AllBind
<1> HIDE DEF m, n, c
<1>6. ASSUME NEW i \in 1..(m + n)
      PROVE  \/ i \in 1..m /\ c[i] = a[i]
             \/ i - m \in 1..n /\ c[i] = b[i - m]
  BY <1>1, <1>2
<1>7. \A i \in 1..m : i \in 1..(m + n) /\ c[i] = a[i] BY <1>1, <1>2
<1>8. ASSUME NEW i \in 1..n PROVE m + i \in 1..(m + n) /\ c[m + i] = b[i]
  <2>1. m + i \in 1..(m + n) /\ ~(m + i <= m) /\ (m + i) - m = i BY <1>1
  <2> QED BY <1>2, <2>1
<1>9. Owned(c) = Owned(a) \cup Owned(b)
  <2>1. ASSUME NEW x \in Owned(c) PROVE x \in Owned(a) \cup Owned(b)
    <3>1. PICK i \in 1..(m + n) : x \in ToSet(Own(c[i])) BY <1>5
    <3> QED BY <1>4, <1>6, <3>1
  <2>2. ASSUME NEW x \in Owned(a) PROVE x \in Owned(c)
    BY <1>4, <1>5, <1>7
  <2>3. ASSUME NEW x \in Owned(b) PROVE x \in Owned(c)
    <3>1. PICK i \in 1..n : x \in ToSet(Own(b[i])) BY <1>4
    <3>2. m + i \in 1..(m + n) /\ x \in ToSet(Own(c[m + i])) BY <1>8, <3>1
    <3> QED BY <1>5, <3>2
  <2> QED BY <2>1, <2>2, <2>3
<1>10. AllBind(c)
  <2>1. \A i \in 1..(m + n) : Binds(c[i]) BY <1>6, <1>a, <1>b
  <2> QED BY <1>2, <2>1 DEF AllBind
<1> QED BY <1>9, <1>10 DEF c

\* A driver without repeats stands for all: what its lists bind.
LEMMA FollowedBind ==
  ASSUME NEW d, NEW fs, NEW gs, AllFollow(fs, gs, d)
  PROVE  AllBind(gs)
BY DEF AllFollow, AllBind, Follows

\* What embedded queries bind.
NestedOwned(S, nested) == UNION {ToSet(Own(nested[n])) : n \in S}

\* An element binds what it was given, and its subquery's.
LEMMA ElementOwned ==
  ASSUME NEW Q, NEW e \in Element(Q), NEW nested
  PROVE  ToSet(ElementOwn(e, "PostgreSQL", nested))
           = ElementOperands(e) \cup NestedOwned(ToSet(e.subQuery), nested)
<1>1. /\ Readable(e) /\ e.values \in Seq(Operands) /\ e.value \in Operands
      /\ e.subQuery \in Seq(Q)
      /\ e.compare \in {"=", "IS NULL", "IN", "BETWEEN", "DISTINCT", "EXISTS"}
  BY DEF Element
<1>2. \A x, y : ToSet(<<>>) = {} /\ ToSet(<<x>>) = {x} /\ ToSet(<<x, y>>) = {x, y}
  BY DEF ToSet
<1>3. CASE e.subQuery # <<>>
  <2>2. ToSet(e.subQuery) = {e.subQuery[1]}
    <3> DEFINE sub == e.subQuery
    <3>1. sub \in Seq(Q) /\ Len(sub) <= 1 /\ sub # <<>> BY <1>1, <1>3 DEF Readable
    <3> HIDE DEF sub
    <3>2. Len(sub) \in Nat /\ Len(sub) # 0 BY <3>1
    <3>a. Len(sub) = 1
      <4> DEFINE n == Len(sub)
      <4>1. n \in Nat /\ n # 0 /\ n <= 1 BY <3>1, <3>2
      <4> HIDE DEF n
      <4>2. n = 1 BY <4>1
      <4> QED BY <4>2 DEF n
    <3>b. DOMAIN sub = 1..Len(sub) BY <3>1
    <3>3. DOMAIN sub = {1} BY <3>a, <3>b
    <3>4. ToSet(sub) = {sub[1]} BY <3>3 DEF ToSet
    <3> QED BY <3>4 DEF sub
  <2>3. e.compare \notin {"IS NULL", "BETWEEN"} BY <1>1, <1>3 DEF Readable
  <2>4. ElementOwn(e, "PostgreSQL", nested) = Own(nested[e.subQuery[1]])
    BY <1>3, <2>3 DEF ElementOwn, RightOwn
  <2>5. ElementOperands(e) = {} BY <1>3 DEF ElementOperands
  <2> QED BY <2>2, <2>4, <2>5 DEF NestedOwned
<1>4. CASE e.subQuery = <<>>
  <2>1. NestedOwned(ToSet(e.subQuery), nested) = {} BY <1>2, <1>4 DEF NestedOwned
  <2>2. CASE e.compare = "IS NULL"
    BY <1>2, <2>1, <2>2 DEF ElementOwn, ElementOperands
  <2>3. CASE e.compare = "IN"
    BY <1>4, <2>1, <2>3 DEF ElementOwn, ElementOperands
  <2>4. CASE e.compare = "BETWEEN"
    <3> DEFINE v == e.values
    <3>1. v \in Seq(Operands) /\ Len(v) = 2 BY <1>1, <2>4 DEF Readable
    <3>2. ElementOwn(e, "PostgreSQL", nested) = <<v[1]>> \o <<v[2]>>
      BY <2>4 DEF ElementOwn
    <3>3. ElementOperands(e) = ToSet(v) BY <1>4, <2>4 DEF ElementOperands
    <3> HIDE DEF v
    <3>4. v[1] \in Operands /\ v[2] \in Operands BY <3>1
    <3>5. ToSet(<<v[1]>> \o <<v[2]>>) = {v[1]} \cup {v[2]}
      <4> DEFINE x == <<v[1]>>
                 y == <<v[2]>>
      <4>1. x \in Seq(Operands) /\ y \in Seq(Operands) BY <3>4
      <4>2. ToSet(x) = {v[1]} /\ ToSet(y) = {v[2]} BY <1>2
      <4> HIDE DEF x, y
      <4>3. ToSet(x \o y) = ToSet(x) \cup ToSet(y) BY <4>1, ToSetConcat
      <4> QED BY <4>2, <4>3 DEF x, y
    <3>6. ToSet(v) = {v[1], v[2]}
      <4>1. DOMAIN v = {1, 2} BY <3>1
      <4> QED BY <4>1 DEF ToSet
    <3> QED BY <2>1, <3>2, <3>3, <3>5, <3>6
  <2>5. CASE e.compare \in {"=", "DISTINCT", "EXISTS"}
    <3>1. ElementOwn(e, "PostgreSQL", nested) = <<e.value>>
      BY <1>4, <2>5 DEF ElementOwn, RightOwn
    <3>2. ElementOperands(e) = {e.value} BY <1>4, <2>5 DEF ElementOperands
    <3> QED BY <1>2, <2>1, <3>1, <3>2
  <2> QED BY <1>1, <2>2, <2>3, <2>4, <2>5
<1> QED BY <1>3, <1>4

\* A free text binds the values it has marks for.
LEMMA FreeTextOwned ==
  ASSUME NEW f \in Fragment
  PROVE  ToSet(FreeTextOwn(f)) = FreeTextOperands(f)
<1> DEFINE filled == IF f.marks < Len(f.values) THEN f.marks ELSE Len(f.values)
           v == f.values
           s == SubSeq(v, 1, filled)
<1>1. f.marks \in Nat /\ v \in Seq(Operands) /\ Len(v) \in Nat /\ DOMAIN v = 1..Len(v)
  BY DEF Fragment
<1>2. filled \in 0..Len(v) /\ (1..f.marks) \cap (1..Len(v)) = 1..filled BY <1>1
<1>3. FreeTextOwn(f) = s BY DEF FreeTextOwn
<1>4. FreeTextOperands(f) = {v[k] : k \in 1..filled} BY <1>1, <1>2 DEF FreeTextOperands
<1> HIDE DEF v, filled
<1>5. Len(s) = filled /\ DOMAIN s = 1..filled /\ \A k \in 1..filled : s[k] = v[k]
  BY <1>1, <1>2
<1> HIDE DEF s
<1>6. ToSet(s) = {v[k] : k \in 1..filled} BY <1>5 DEF ToSet
<1> QED BY <1>3, <1>4, <1>6

\* What a list made of a sequence, item by item, binds: g says what for each.
LEMMA OwnedEach ==
  ASSUME NEW S, NEW s \in Seq(S), NEW fs, AllBind(fs), fs = [i \in DOMAIN s |-> fs[i]],
         NEW g, \A i \in DOMAIN s : ToSet(Own(fs[i])) = g[s[i]]
  PROVE  Owned(fs) = UNION {g[x] : x \in ToSet(s)}
<1>1. DOMAIN fs = 1..Len(fs) BY DEF AllBind
<1>2. DOMAIN fs = DOMAIN s OBVIOUS
<1>3. Owned(fs) = UNION {ToSet(Own(fs[i])) : i \in DOMAIN s} BY <1>1, <1>2 DEF Owned
<1>4. UNION {ToSet(Own(fs[i])) : i \in DOMAIN s} = UNION {g[s[i]] : i \in DOMAIN s}
  OBVIOUS
<1>5. UNION {g[s[i]] : i \in DOMAIN s} = UNION {g[x] : x \in ToSet(s)} BY DEF ToSet
<1> QED BY <1>3, <1>4, <1>5

\* What is bound is alike itself.
LEMMA BindsFollows ==
  ASSUME NEW f, Binds(f)
  PROVE  Follows(f, f, "PostgreSQL")
BY AlikeItself DEF Follows, Binds

\* Of a list of queries.
LEMMA QueriesOwned ==
  ASSUME NEW Q, NEW qs \in Seq(Q), NEW nested, \A n \in ToSet(qs) : Binds(nested[n])
  PROVE  AllBind(Queries(qs, nested)) /\ Owned(Queries(qs, nested)) = NestedOwned(ToSet(qs), nested)
<1> DEFINE fs == Queries(qs, nested)
           g == [n \in ToSet(qs) |-> ToSet(Own(nested[n]))]
<1>1. AllBind(fs) BY BindsFollows, QueriesFollow, FollowedBind
<1>2. fs = [i \in DOMAIN qs |-> fs[i]] /\ \A i \in DOMAIN qs : fs[i] = nested[qs[i]]
  BY DEF Queries
<1>3. \A i \in DOMAIN qs : qs[i] \in ToSet(qs) BY DEF ToSet
<1>4. \A n \in ToSet(qs) : g[n] = ToSet(Own(nested[n])) OBVIOUS
<1> HIDE DEF fs, g
<1>5. \A i \in DOMAIN qs : ToSet(Own(fs[i])) = g[qs[i]] BY <1>2, <1>3, <1>4
<1>6. Owned(fs) = UNION {g[x] : x \in ToSet(qs)} BY <1>1, <1>2, <1>5, OwnedEach
<1>7. UNION {g[x] : x \in ToSet(qs)} = UNION {ToSet(Own(nested[n])) : n \in ToSet(qs)}
  BY <1>4
<1> QED BY <1>1, <1>6, <1>7 DEF fs, NestedOwned

\* The queries joined.
JoinedQueries(js) == {j.query : j \in {x \in ToSet(js) : x.asSubQuery}}

\* Of a list of joins.
LEMMA JoinsOwned ==
  ASSUME NEW Q, NEW js \in Seq(Join(Q)), NEW nested,
         \A n \in JoinedQueries(js) : Binds(nested[n])
  PROVE  /\ AllBind(Joins(js, nested))
         /\ Owned(Joins(js, nested)) = NestedOwned(JoinedQueries(js), nested)
<1> DEFINE fs == Joins(js, nested)
           g == [j \in ToSet(js) |-> IF j.asSubQuery THEN ToSet(Own(nested[j.query])) ELSE {}]
<1>1. AllBind(fs)
  <2>1. \A j \in ToSet(js) : j.asSubQuery => Follows(nested[j.query], nested[j.query], "PostgreSQL")
    BY BindsFollows DEF JoinedQueries
  <2> QED BY <2>1, JoinsFollow, FollowedBind
<1>2. /\ fs = [i \in DOMAIN js |-> fs[i]]
      /\ \A i \in DOMAIN js : fs[i] = IF js[i].asSubQuery THEN nested[js[i].query] ELSE Silent
  BY DEF Joins
<1>3. \A i \in DOMAIN js : js[i] \in ToSet(js) BY DEF ToSet
<1>4. \A j \in ToSet(js) : g[j] = IF j.asSubQuery THEN ToSet(Own(nested[j.query])) ELSE {}
  OBVIOUS
<1>5. ToSet(Own(Silent)) = {}
  <2>1. <<>> \in Params BY EmptySeq DEF Params
  <2>2. Own(Silent) = <<>> BY <2>1 DEF Own, Silent, Nothing
  <2> QED BY <2>2 DEF ToSet
<1> HIDE DEF fs, g
<1>6. ASSUME NEW i \in DOMAIN js PROVE ToSet(Own(fs[i])) = g[js[i]]
  <2>1. CASE js[i].asSubQuery BY <1>2, <1>3, <1>4, <2>1
  <2>2. CASE ~js[i].asSubQuery BY <1>2, <1>3, <1>4, <1>5, <2>2
  <2> QED BY <2>1, <2>2
<1>7. Owned(fs) = UNION {g[x] : x \in ToSet(js)} BY <1>1, <1>2, <1>6, OwnedEach
<1>8. UNION {g[x] : x \in ToSet(js)} = UNION {ToSet(Own(nested[n])) : n \in JoinedQueries(js)}
  BY <1>4 DEF JoinedQueries
<1> QED BY <1>1, <1>7, <1>8 DEF fs, NestedOwned

\* The operands of a list of elements, of a list of free texts, and the queries
\* embedded in a list of elements.
ElementsOperands(es) == UNION {ElementOperands(e) : e \in ToSet(es)}
FreeTextsOperands(fs) == UNION {FreeTextOperands(f) : f \in ToSet(fs)}
SubQueries(es) == UNION {ToSet(e.subQuery) : e \in ToSet(es)}

\* Of a list of conditions.
ConditionsBind(es, nested) ==
  UNION {ElementOperands(e) \cup NestedOwned(ToSet(e.subQuery), nested) : e \in ToSet(es)}

\* They bind what their elements were given, and the subqueries'.
LEMMA ConditionsOwned ==
  ASSUME NEW Q, NEW es \in Seq(Element(Q)), NEW nested,
         \A e \in ToSet(es) : \A n \in ToSet(e.subQuery) : Binds(nested[n])
  PROVE  /\ AllBind(Conditions(es, "PostgreSQL", nested))
         /\ Owned(Conditions(es, "PostgreSQL", nested)) = ConditionsBind(es, nested)
<1> DEFINE fs == Conditions(es, "PostgreSQL", nested)
           g == [e \in ToSet(es) |-> ElementOperands(e) \cup NestedOwned(ToSet(e.subQuery), nested)]
<1>1. \A i \in DOMAIN es : es[i] \in ToSet(es) BY DEF ToSet
<1>2. \A e \in ToSet(es) : e \in Element(Q) BY MembersAre DEF ToSet
<1>3. ASSUME NEW e \in ToSet(es) PROVE SubBinds(e, nested)
  <2> SUFFICES ASSUME e.subQuery # <<>> PROVE e.subQuery[1] \in ToSet(e.subQuery)
    BY DEF SubBinds
  <2>1. e.subQuery \in Seq(Q) BY <1>2 DEF Element
  <2>2. Len(e.subQuery) # 0 BY <2>1
  <2>3. 1 \in DOMAIN e.subQuery BY <2>1, <2>2
  <2> QED BY <2>3 DEF ToSet
<1>4. AllBind(fs)
  <2>1. \A e \in ToSet(es) : SubFollows(e, "PostgreSQL", nested, nested)
    BY <1>3, BindsFollows DEF SubBinds, SubFollows
  <2> QED BY <2>1, ConditionsFollow, FollowedBind
<1>5. /\ fs = [i \in DOMAIN es |-> fs[i]]
      /\ \A i \in DOMAIN es : fs[i] = [p \in Params |-> ElementSql(es[i], "PostgreSQL", nested, p)]
  BY DEF Conditions
<1>6. \A e \in ToSet(es) : g[e] = ElementOperands(e) \cup NestedOwned(ToSet(e.subQuery), nested)
  OBVIOUS
<1> HIDE DEF fs, g
<1>7. ASSUME NEW i \in DOMAIN es PROVE ToSet(Own(fs[i])) = g[es[i]]
  <2> DEFINE e == es[i]
  <2>1. e \in ToSet(es) /\ e \in Element(Q) /\ SubBinds(e, nested) BY <1>1, <1>2, <1>3
  <2>2. fs[i] = [p \in Params |-> ElementSql(e, "PostgreSQL", nested, p)] BY <1>5
  <2> HIDE DEF e
  <2>3. Own(fs[i]) = ElementOwn(e, "PostgreSQL", nested) BY <2>1, <2>2, ElementBinds
  <2>4. ToSet(Own(fs[i])) = g[e] BY <1>6, <2>1, <2>3, ElementOwned
  <2> QED BY <2>4 DEF e
<1>8. Owned(fs) = UNION {g[x] : x \in ToSet(es)} BY <1>4, <1>5, <1>7, OwnedEach
<1>9. UNION {g[x] : x \in ToSet(es)} = ConditionsBind(es, nested) BY <1>6 DEF ConditionsBind
<1> QED BY <1>4, <1>8, <1>9 DEF fs

\* Of a list of free texts.
LEMMA FreeTextsOwned ==
  ASSUME NEW ts \in Seq(Fragment)
  PROVE  /\ AllBind(FreeTexts(ts))
         /\ Owned(FreeTexts(ts)) = FreeTextsOperands(ts)
<1> DEFINE fs == FreeTexts(ts)
           g == [f \in ToSet(ts) |-> FreeTextOperands(f)]
<1>1. AllBind(fs) BY FreeTextsFollow, FollowedBind
<1>2. /\ fs = [i \in DOMAIN ts |-> fs[i]]
      /\ \A i \in DOMAIN ts : fs[i] = [p \in Params |-> FreeTextSql(ts[i], p)]
  BY DEF FreeTexts
<1>3. \A i \in DOMAIN ts : ts[i] \in ToSet(ts) /\ ts[i] \in Fragment BY MembersAre DEF ToSet
<1>4. \A f \in ToSet(ts) : g[f] = FreeTextOperands(f) OBVIOUS
<1> HIDE DEF fs, g
<1>5. ASSUME NEW i \in DOMAIN ts PROVE ToSet(Own(fs[i])) = g[ts[i]]
  BY <1>2, <1>3, <1>4, FreeTextBinds, FreeTextOwned
<1>6. Owned(fs) = UNION {g[x] : x \in ToSet(ts)} BY <1>1, <1>2, <1>5, OwnedEach
<1>7. UNION {g[x] : x \in ToSet(ts)} = UNION {FreeTextOperands(f) : f \in ToSet(ts)} BY <1>4
<1> QED BY <1>1, <1>6, <1>7 DEF fs, FreeTextsOperands

\* The operands of all conditions of a query.
ConditionsOperands(q) == UNION {ElementOperands(e) : e \in Elements(q)}

\* OwnOperands, by list.
LEMMA OwnOperandsAre ==
  ASSUME NEW q
  PROVE  OwnOperands(q) = ElementsOperands(q.where) \cup ElementsOperands(q.having)
                            \cup FreeTextsOperands(q.free)
<1>1. OwnOperands(q) = ConditionsOperands(q) \cup FreeTextsOperands(q.free)
  BY DEF OwnOperands, ConditionsOperands, FreeTextsOperands
<1>2. ASSUME NEW x
      PROVE  x \in ConditionsOperands(q) <=> \E e \in Elements(q) : x \in ElementOperands(e)
  BY DEF ConditionsOperands
<1>3. ASSUME NEW x, NEW es
      PROVE  x \in ElementsOperands(es) <=> \E e \in ToSet(es) : x \in ElementOperands(e)
  BY DEF ElementsOperands
<1>4. \A e : e \in Elements(q) <=> e \in ToSet(q.where) \/ e \in ToSet(q.having)
  BY DEF Elements
<1>5. ASSUME NEW x
      PROVE  x \in ConditionsOperands(q)
               <=> x \in ElementsOperands(q.where) \/ x \in ElementsOperands(q.having)
  BY <1>2, <1>3, <1>4
<1>6. ConditionsOperands(q) = ElementsOperands(q.where) \cup ElementsOperands(q.having)
  BY <1>5
<1> QED BY <1>1, <1>6

\* Conditions bind their elements' operands, and what their subqueries do.
LEMMA ConditionsBindBoth ==
  ASSUME NEW es, NEW nested
  PROVE  ConditionsBind(es, nested)
           = ElementsOperands(es) \cup NestedOwned(SubQueries(es), nested)
<1>1. ASSUME NEW x
      PROVE  x \in ConditionsBind(es, nested)
               <=> \E e \in ToSet(es) : x \in ElementOperands(e) \/ x \in NestedOwned(ToSet(e.subQuery), nested)
  BY DEF ConditionsBind
<1>2. ASSUME NEW x
      PROVE  x \in ElementsOperands(es) <=> \E e \in ToSet(es) : x \in ElementOperands(e)
  BY DEF ElementsOperands
<1>3. ASSUME NEW x, NEW S
      PROVE  x \in NestedOwned(S, nested) <=> \E n \in S : x \in ToSet(Own(nested[n]))
  BY DEF NestedOwned
<1>4. ASSUME NEW n
      PROVE  n \in SubQueries(es) <=> \E e \in ToSet(es) : n \in ToSet(e.subQuery)
  BY DEF SubQueries
<1>5. ASSUME NEW x
      PROVE  x \in NestedOwned(SubQueries(es), nested)
               <=> \E e \in ToSet(es) : x \in NestedOwned(ToSet(e.subQuery), nested)
  BY <1>3, <1>4, Zenon
<1>6. ASSUME NEW x
      PROVE  x \in ConditionsBind(es, nested)
               <=> x \in ElementsOperands(es) \/ x \in NestedOwned(SubQueries(es), nested)
  BY <1>1, <1>2, <1>5, Zenon
<1> QED BY <1>6

\* A query's clauses bind its own operands, and what it embeds.
LEMMA ClausesOwned ==
  ASSUME NEW Q, NEW q \in Query(Q), NEW nested, \A n \in Nested(q) : Binds(nested[n])
  PROVE  /\ AllBind(Clauses(q, "PostgreSQL", nested))
         /\ Owned(Clauses(q, "PostgreSQL", nested))
              = OwnOperands(q) \cup NestedOwned(Nested(q), nested)
<1> DEFINE c1 == Queries(q.ctes, nested)
           c2 == Queries(q.from, nested)
           c3 == Joins(q.joins, nested)
           c4 == Conditions(q.where, "PostgreSQL", nested)
           c5 == FreeTexts(q.free)
           c6 == Conditions(q.having, "PostgreSQL", nested)
           c7 == Queries(q.sets, nested)
           N(S) == NestedOwned(S, nested)
           W == ElementsOperands(q.where)
           H == ElementsOperands(q.having)
           F == FreeTextsOperands(q.free)
           SW == SubQueries(q.where)
           SH == SubQueries(q.having)
           J == JoinedQueries(q.joins)
           A == ToSet(q.ctes)
           B == ToSet(q.from)
           C == ToSet(q.sets)
<1>0. /\ q.ctes \in Seq(Q) /\ q.from \in Seq(Q) /\ q.joins \in Seq(Join(Q))
      /\ q.where \in Seq(Element(Q)) /\ q.free \in Seq(Fragment)
      /\ q.having \in Seq(Element(Q)) /\ q.sets \in Seq(Q)
  BY DEF Query
<1>n. Nested(q) = A \cup B \cup C \cup J \cup SW \cup SH
  <2>1. ASSUME NEW n
        PROVE  n \in UNION {ToSet(e.subQuery) : e \in Elements(q)} <=> n \in SW \/ n \in SH
    BY DEF Elements, SubQueries
  <2> QED BY <2>1 DEF Nested, JoinedQueries
<1>1. /\ AllBind(c1) /\ Owned(c1) = N(A)
      /\ AllBind(c2) /\ Owned(c2) = N(B)
      /\ AllBind(c7) /\ Owned(c7) = N(C)
  BY <1>0, <1>n, QueriesOwned
<1>2. AllBind(c3) /\ Owned(c3) = N(J) BY <1>0, <1>n, JoinsOwned
<1>3. AllBind(c4) /\ Owned(c4) = W \cup N(SW)
  <2>1. \A e \in ToSet(q.where) : \A n \in ToSet(e.subQuery) : Binds(nested[n])
    BY <1>n DEF SubQueries
  <2>2. AllBind(c4) /\ Owned(c4) = ConditionsBind(q.where, nested) BY <1>0, <2>1, ConditionsOwned
  <2>3. ConditionsBind(q.where, nested) = W \cup N(SW) BY ConditionsBindBoth
  <2> QED BY <2>2, <2>3
<1>4. AllBind(c5) /\ Owned(c5) = F BY <1>0, FreeTextsOwned
<1>5. AllBind(c6) /\ Owned(c6) = H \cup N(SH)
  <2>1. \A e \in ToSet(q.having) : \A n \in ToSet(e.subQuery) : Binds(nested[n])
    BY <1>n DEF SubQueries
  <2>2. AllBind(c6) /\ Owned(c6) = ConditionsBind(q.having, nested) BY <1>0, <2>1, ConditionsOwned
  <2>3. ConditionsBind(q.having, nested) = H \cup N(SH) BY ConditionsBindBoth
  <2> QED BY <2>2, <2>3
<1>6. Clauses(q, "PostgreSQL", nested) = (((((c1 \o c2) \o c3) \o c4) \o c5) \o c6) \o c7
  BY DEF Clauses
<1>7. OwnOperands(q) = W \cup H \cup F BY OwnOperandsAre
<1>8. N(Nested(q)) = N(A) \cup N(B) \cup N(C) \cup N(J) \cup N(SW) \cup N(SH)
  <2>1. ASSUME NEW x, NEW S PROVE x \in N(S) <=> \E n \in S : x \in ToSet(Own(nested[n]))
    BY DEF NestedOwned
  <2>2. \A n : n \in Nested(q) <=>
          n \in A \/ n \in B \/ n \in C \/ n \in J \/ n \in SW \/ n \in SH
    BY <1>n
  <2> HIDE DEF A, B, C, J, SW, SH, N
  <2>3. ASSUME NEW x
        PROVE  x \in N(Nested(q)) <=>
                 \/ x \in N(A) \/ x \in N(B) \/ x \in N(C)
                 \/ x \in N(J) \/ x \in N(SW) \/ x \in N(SH)
    BY <2>1, <2>2
  <2> QED BY <2>3
<1> HIDE DEF c1, c2, c3, c4, c5, c6, c7, N, W, H, F, SW, SH, J, A, B, C
<1>9. /\ AllBind(((c1 \o c2) \o c3) \o c4)
      /\ Owned(((c1 \o c2) \o c3) \o c4) = N(A) \cup N(B) \cup N(J) \cup (W \cup N(SW))
  BY <1>1, <1>2, <1>3, OwnedConcat
<1> DEFINE u == ((c1 \o c2) \o c3) \o c4
<1> HIDE DEF u
<1>10. /\ AllBind(((u \o c5) \o c6) \o c7)
       /\ Owned(((u \o c5) \o c6) \o c7) = Owned(u) \cup F \cup (H \cup N(SH)) \cup N(C)
  BY <1>1, <1>4, <1>5, <1>9, OwnedConcat DEF u
<1>11. NestedOwned(Nested(q), nested) = N(Nested(q)) BY DEF N
<1>12. Clauses(q, "PostgreSQL", nested) = ((u \o c5) \o c6) \o c7 BY <1>6 DEF u
<1>13. Owned(u) = N(A) \cup N(B) \cup N(J) \cup (W \cup N(SW)) BY <1>9 DEF u
<1> QED BY <1>7, <1>8, <1>10, <1>11, <1>12, <1>13

\* Of what a query embeds, each binds its own operands.
LEMMA EmbeddingOwned ==
  ASSUME NEW q \in Query(InnerQuery)
  PROVE  \A n \in Nested(q) :
           /\ Binds(Embedding(q, "PostgreSQL")[n])
           /\ ToSet(Own(Embedding(q, "PostgreSQL")[n])) = OwnOperands(n)
<1> SUFFICES ASSUME NEW n \in Nested(q)
             PROVE  /\ Binds(Embedding(q, "PostgreSQL")[n])
                    /\ ToSet(Own(Embedding(q, "PostgreSQL")[n])) = OwnOperands(n)
  OBVIOUS
<1> DEFINE c == Clauses(n, "PostgreSQL", <<>>)
<1>1. n \in InnerQuery /\ n \in Query({}) BY NestedInner DEF InnerQuery
<1>2. Nested(n) = {} BY <1>1, InnerEmbedsNone
<1>3. AllBind(c) /\ Owned(c) = OwnOperands(n) \cup NestedOwned({}, <<>>)
  BY <1>1, <1>2, ClausesOwned
<1>4. NestedOwned({}, <<>>) = {} BY DEF NestedOwned
<1>5. Embedding(q, "PostgreSQL")[n] = [p \in Params |-> RenderAll(c, p)]
  BY DEF Embedding, EmbeddedSql
<1>6. Binds(Embedding(q, "PostgreSQL")[n]) BY EmbeddingFollows DEF Follows
<1> HIDE DEF c
<1> QED BY <1>3, <1>4, <1>5, <1>6, ListOwned

\* QcSqlQuery::toSql() binds the operands of the query and of those it embeds.
LEMMA QueryOwned ==
  ASSUME NEW q \in Query(InnerQuery)
  PROVE  ToSet(QuerySql(q, "PostgreSQL", <<>>).params)
           = UNION {OwnOperands(x) : x \in {q} \cup Nested(q)}
<1> DEFINE nested == Embedding(q, "PostgreSQL")
           c == Clauses(q, "PostgreSQL", nested)
           f == [p \in Params |-> RenderAll(c, p)]
<1>1. AllBind(c) /\ Owned(c) = OwnOperands(q) \cup NestedOwned(Nested(q), nested)
  BY EmbeddingOwned, ClausesOwned
<1>2. NestedOwned(Nested(q), nested) = UNION {OwnOperands(n) : n \in Nested(q)}
  BY EmbeddingOwned DEF NestedOwned
<1>3. QuerySql(q, "PostgreSQL", <<>>) = f[<<>>]
  <2>1. <<>> \in Params BY EmptySeq DEF Params
  <2> QED BY <2>1 DEF QuerySql
<1> HIDE DEF nested, c
<1>4. ToSet(Own(f)) = Owned(c) BY <1>1, ListOwned
<1> HIDE DEF f
<1>5. ToSet(QuerySql(q, "PostgreSQL", <<>>).params)
        = OwnOperands(q) \cup UNION {OwnOperands(n) : n \in Nested(q)}
  BY <1>1, <1>2, <1>3, <1>4 DEF Own
<1> QED BY <1>5

\* A list of values is what binding them binds.
LEMMA BindingOwned ==
  ASSUME NEW values \in Params
  PROVE  AllBind(Binding(values)) /\ Owned(Binding(values)) = ToSet(values)
<1> DEFINE b == Binding(values)
           N == Len(values)
           g == [v \in ToSet(values) |-> {v}]
<1>1. N \in Nat /\ DOMAIN values = 1..N /\ \A i \in 1..N : values[i] \in Operands
  BY DEF Params
<1>2. /\ b = [i \in 1..N |-> b[i]] /\ b = [i \in DOMAIN values |-> b[i]]
      /\ \A i \in 1..N : b[i] = [p \in Params |-> Bind(values[i], p)]
  BY <1>1 DEF Binding
<1>3. \A v \in ToSet(values) : g[v] = {v} OBVIOUS
<1>v. \A i \in 1..N : values[i] \in ToSet(values) BY <1>1 DEF ToSet
<1>s. values \in Seq(Operands) BY DEF Params
<1> HIDE DEF b, g, N
<1>4. ASSUME NEW i \in 1..N PROVE Binds(b[i]) /\ ToSet(Own(b[i])) = {values[i]}
  <2> DEFINE v == values[i]
             f == b[i]
  <2>1. v \in Operands /\ f = [p \in Params |-> Bind(v, p)] BY <1>1, <1>2
  <2> HIDE DEF v, f
  <2>2. f = [p \in Params |-> f[p]] /\ \A p \in Params : f[p] = Bind(v, p) BY <2>1
  <2>3. <<v>> \in Params BY <2>1 DEF Params
  <2>4. \A p \in Params : Sound(f[p], "Oracle", p) /\ f[p].params = p \o <<v>>
    BY <2>1, <2>2, BindSound
  <2>5. Binds(f) /\ Own(f) = <<v>> BY <2>2, <2>3, <2>4, BindsWhen DEF Sound
  <2>6. ToSet(<<v>>) = {v} BY DEF ToSet
  <2> QED BY <2>5, <2>6 DEF f, v
<1>5. \A i \in 1..N : Follows(b[i], b[i], "PostgreSQL") BY <1>4, BindsFollows
<1>6. AllBind(b) BY <1>1, <1>2, <1>5, AllFollowWhen, FollowedBind
<1>7. \A i \in DOMAIN values : ToSet(Own(b[i])) = g[values[i]] BY <1>1, <1>3, <1>4, <1>v
<1>8. Owned(b) = UNION {g[x] : x \in ToSet(values)}
  <2>1. b = [i \in DOMAIN values |-> b[i]] BY <1>2
  <2> QED BY <1>6, <1>7, <1>s, <2>1, OwnedEach
<1>9. UNION {g[x] : x \in ToSet(values)} = ToSet(values) BY <1>3
<1> QED BY <1>6, <1>8, <1>9 DEF b

\* The other three builders' toSql() binds what is assigned, and what the
\* conditions were given.
LEMMA ChangesOwned ==
  ASSUME NEW q \in Query(InnerQuery)
  PROVE  ToSet(ChangesSql(q, "PostgreSQL", <<>>).params)
           = ToSet(Assigned(q)) \cup ElementsOperands(q.where)
               \cup (UNION {OwnOperands(n) : n \in SubQueries(q.where)})
<1> DEFINE nested == Embedding(q, "PostgreSQL")
           b == Binding(Assigned(q))
           c == Conditions(q.where, "PostgreSQL", nested)
           fs == b \o c
           f == [p \in Params |-> RenderAll(fs, p)]
<1>1. AllBind(b) /\ Owned(b) = ToSet(Assigned(q)) BY AssignedTyped, BindingOwned
<1>2. SubQueries(q.where) \subseteq Nested(q) BY DEF SubQueries, Nested, Elements
<1>3. AllBind(c) /\ Owned(c) = ConditionsBind(q.where, nested)
  <2>1. q.where \in Seq(Element(InnerQuery)) BY DEF Query
  <2>2. \A e \in ToSet(q.where) : \A n \in ToSet(e.subQuery) : Binds(nested[n])
    BY <1>2, EmbeddingOwned DEF SubQueries
  <2> QED BY <2>1, <2>2, ConditionsOwned
<1>4. ConditionsBind(q.where, nested)
        = ElementsOperands(q.where) \cup NestedOwned(SubQueries(q.where), nested)
  BY ConditionsBindBoth
<1>5. NestedOwned(SubQueries(q.where), nested) = UNION {OwnOperands(n) : n \in SubQueries(q.where)}
  BY <1>2, EmbeddingOwned DEF NestedOwned
<1>6. ChangesSql(q, "PostgreSQL", <<>>) = f[<<>>]
  <2>1. <<>> \in Params BY EmptySeq DEF Params
  <2> QED BY <2>1 DEF ChangesSql
<1> HIDE DEF nested, b, c
<1>7. AllBind(fs) /\ Owned(fs) = Owned(b) \cup Owned(c) BY <1>1, <1>3, OwnedConcat
<1> HIDE DEF fs
<1>8. ToSet(Own(f)) = Owned(fs) BY <1>7, ListOwned
<1> HIDE DEF f
<1>9. ToSet(ChangesSql(q, "PostgreSQL", <<>>).params) = Owned(b) \cup Owned(c)
  BY <1>6, <1>7, <1>8 DEF Own
<1> QED BY <1>1, <1>3, <1>4, <1>5, <1>9

\* A builder that has no more conditions than those of WHERE embeds no more
\* than their subqueries.
LEMMA ChangesHaveWhere ==
  ASSUME TypeOK, kind # "select"
  PROVE  /\ Nested(Outer) = SubQueries(Outer.where)
         /\ OwnOperands(Outer) = ElementsOperands(Outer.where)
<1>1. /\ Outer.ctes = <<>> /\ Outer.from = <<>> /\ Outer.joins = <<>> /\ Outer.free = <<>>
      /\ Outer.having = <<>> /\ Outer.sets = <<>>
  BY DEF TypeOK, Has, Parts, SelectParts
<1>2. ToSet(<<>>) = {} BY DEF ToSet
<1>3. Nested(Outer) = SubQueries(Outer.where)
  <2>1. Elements(Outer) = ToSet(Outer.where) BY <1>1, <1>2 DEF Elements
  <2> HIDE DEF Outer
  <2> QED BY <1>1, <1>2, <2>1 DEF Nested, SubQueries
<1>4. OwnOperands(Outer) = ElementsOperands(Outer.where)
  <2>1. ElementsOperands(<<>>) = {} /\ FreeTextsOperands(<<>>) = {}
    BY <1>2 DEF ElementsOperands, FreeTextsOperands
  <2>2. OwnOperands(Outer) = ElementsOperands(Outer.where) \cup ElementsOperands(Outer.having)
                               \cup FreeTextsOperands(Outer.free)
    BY OwnOperandsAre
  <2> QED BY <1>1, <2>1, <2>2
<1> QED BY <1>3, <1>4

\* Each column set has the value of its last set(), and no others are assigned.
LEMMA LastAssigned ==
  ASSUME TypeOK, SetKeepsPlace
  PROVE  ToSet(Assigned(Outer)) = {LastSet(c) : c \in ColumnsSet}
<1> DEFINE a == Outer.assign
           N == Len(a)
           values == Assigned(Outer)
<1>1. a \in Seq(Assignment) /\ assigned \in Seq(Assignment)
  BY DEF TypeOK, Outer, Query
<1>2. N \in Nat /\ DOMAIN a = 1..N /\ Len(assigned) \in Nat /\ DOMAIN assigned = 1..Len(assigned)
  BY <1>1
<1>3. DOMAIN values = 1..N /\ \A i \in 1..N : values[i] = a[i].value BY <1>2 DEF Assigned
<1>4. ToSet(values) = {a[i].value : i \in 1..N} BY <1>3 DEF ToSet
<1>5. ASSUME NEW i \in 1..N
      PROVE  a[i].value = LastSet(a[i].column) /\ a[i].column \in ColumnsSet
  <2> DEFINE c == a[i].column
             mine == Calls(c)
  <2>1. mine \subseteq Nat BY <1>2 DEF Calls
  <2>2. PICK last \in mine : a[i] = assigned[last] /\ \A n \in mine : n <= last
    BY <1>2 DEF SetKeepsPlace
  <2>3. \A m \in mine : (\A n \in mine : n <= m) => m = last
    <3> HIDE DEF mine
    <3> QED BY <2>1, <2>2
  <2>4. (CHOOSE m \in mine : \A n \in mine : n <= m) = last
    <3> HIDE DEF mine
    <3> QED BY <2>2, <2>3
  <2>5. LastSet(c) = assigned[last].value BY <2>4 DEF LastSet
  <2>6. c \in {x.column : x \in ToSet(a)} BY <1>2 DEF ToSet
  <2>7. c \in ColumnsSet BY <2>6 DEF SetKeepsPlace
  <2> QED BY <2>2, <2>5, <2>7
<1>6. ASSUME NEW c \in ColumnsSet PROVE \E i \in 1..N : a[i].column = c
  <2>1. c \in {x.column : x \in ToSet(a)} BY DEF SetKeepsPlace
  <2> QED BY <1>2, <2>1 DEF ToSet
<1> HIDE DEF a, N, values
<1>7. \A v : v \in {a[i].value : i \in 1..N} <=> v \in {LastSet(c) : c \in ColumnsSet}
  BY <1>5, <1>6
<1>8. ToSet(values) = {LastSet(c) : c \in ColumnsSet} BY <1>4, <1>7
<1> QED BY <1>8 DEF values

\* What a builder binds on a driver without repeats.
LEMMA ReferenceOwned ==
  ASSUME TypeOK, SetKeepsPlace
  PROVE  ToSet(Rendered("PostgreSQL").params)
           = (UNION {OwnOperands(q) : q \in Within}) \cup {LastSet(c) : c \in ColumnsSet}
<1>1. Outer \in Query(InnerQuery) BY DEF TypeOK, Outer
<1>2. ToSet(Assigned(Outer)) = {LastSet(c) : c \in ColumnsSet} BY LastAssigned
<1> DEFINE A == ToSet(Assigned(Outer))
           W == UNION {OwnOperands(q) : q \in Within}
<1>3. CASE kind = "select"
  <2>1. Outer.assign = <<>> BY <1>3 DEF TypeOK, Has, Parts, SelectParts
  <2>2. A = {} BY <2>1 DEF Assigned, ToSet
  <2>3. ToSet(Rendered("PostgreSQL").params) = W
    BY <1>1, <1>3, QueryOwned DEF Rendered, Within
  <2> HIDE DEF A, W
  <2>4. ToSet(Rendered("PostgreSQL").params) = W \cup A BY <2>2, <2>3
  <2> QED BY <1>2, <2>4 DEF A, W
<1>4. CASE kind # "select"
  <2> DEFINE S == SubQueries(Outer.where)
             O == ElementsOperands(Outer.where)
             V == UNION {OwnOperands(n) : n \in S}
  <2>1. Rendered("PostgreSQL").params = ChangesSql(Outer, "PostgreSQL", <<>>).params
    BY <1>4 DEF Rendered, ChangeSql
  <2>2. ToSet(Rendered("PostgreSQL").params) = A \cup O \cup V
    BY <1>1, <2>1, ChangesOwned
  <2>3. Within = {Outer} \cup S /\ OwnOperands(Outer) = O
    BY <1>4, ChangesHaveWhere DEF Within
  <2> HIDE DEF A, S, O
  <2>4. W = O \cup V BY <2>3
  <2> HIDE DEF W, V
  <2>5. ToSet(Rendered("PostgreSQL").params) = W \cup A BY <2>2, <2>4
  <2> QED BY <1>2, <2>5 DEF A, W
<1> QED BY <1>3, <1>4

\* Whatever calls made the builder, on every driver the statement binds the
\* operands the caller gave, of the conditions, of the free texts as far as
\* these have marks, of the queries it embeds and of each column's last set() -
\* all of these and no others.
THEOREM NoOperandLost == Spec => []EveryOperandBound
<1>1. ASSUME TypeOK, SetKeepsPlace PROVE EveryOperandBound
  <2>1. ASSUME NEW d \in Driver
        PROVE  ToSet(Rendered(d).params) = ToSet(Rendered("PostgreSQL").params)
    <3>1. /\ Rendered(d).params \in Params /\ Rendered("PostgreSQL").params \in Params
          /\ Alike(Rendered(d).params, Rendered("PostgreSQL").params, d)
      BY <1>1, RenderedFollows
    <3>2. CASE d = "MSSQL" BY <3>1, <3>2, StuttersMembers DEF Alike
    <3>3. CASE d # "MSSQL" BY <3>1, <3>3 DEF Alike
    <3> QED BY <3>2, <3>3
  <2>2. ToSet(Rendered("PostgreSQL").params)
          = (UNION {OwnOperands(q) : q \in Within}) \cup {LastSet(c) : c \in ColumnsSet}
    BY <1>1, ReferenceOwned
  <2> QED BY <2>1, <2>2 DEF EveryOperandBound
<1> QED BY <1>1, TypeCorrect, AssignmentsKeepPlace, PTL
============================================================================
