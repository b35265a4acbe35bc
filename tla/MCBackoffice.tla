----------------------------- MODULE MCBackoffice -----------------------------
(* Backoffice for TLC. *)
EXTENDS Backoffice, TLC

CONSTANTS m1, m2, e1, e2, i1, h1, k1, k2, s1, s2, square, harbour, account

Symmetry == Permutations(Requests) \cup Permutations(Locales)

\* The address i1 is known by is verified, another it claims is not.
Token(identity, email, isVerified) ==
  [identity |-> identity, email |-> email, isVerified |-> isVerified]
TokensDef == { Token(i1, e1, TRUE), Token(i1, e2, FALSE), Token(h1, e1, TRUE) }

\* January to March, with events at the boundaries of a day, a week and a month.
MonthLengthsDef == <<31, 28, 31>>
Single == { [start |-> s, frequency |-> "single", rule |-> NoRule] : s \in {0, 13} }
Recurring ==
  { [start |-> s, frequency |-> "recurring",
     rule |-> [freq |-> f, interval |-> i, byDay |-> b, until |-> u]] :
      s \in {4, 30, 121, 234}, f \in {"daily", "weekly", "monthly"}, i \in 1..3,
      b \in {{}, {1, 3}}, u \in {NoEnd, 240} }
EventsDef == Single \cup Recurring
PagesDef == {4, 62, 173}

\* Files: a walk of two stops, told whole in one language and in part in the other; the same
\* with a second tour, with a schema of its own, and three that break off: a stop named twice,
\* a cover that is not attached, a schema a text does not fit.
Text(lists, prose, described) == [lists |-> lists, prose |-> prose, described |-> described]
Both == <<square, harbour>>
Unlisted == Text(FALSE, FALSE, {square, harbour})
Whole == Text(TRUE, FALSE, {square, harbour})
Part == Text(TRUE, FALSE, {square})
Item(m, i) == [medium |-> m, at |-> i]
Walk(schema, stops, items, text) ==
  [slug |-> s1, schema |-> schema, variant |-> "stops", stops |-> stops, tags |-> {k1},
   items |-> items, cover |-> m1, texts |-> "en" :> Whole @@ "it" :> text]
Visit ==
  [slug |-> s2, schema |-> "default", variant |-> "description", stops |-> <<>>, tags |-> {},
   items |-> <<Item(m1, 0), Item(m2, 1)>>, cover |-> None,
   texts |-> "en" :> Text(TRUE, TRUE, None)]
File(ts) == [tours |-> ts, media |-> {m1, m2}, tags |-> {k1}, languages |-> {"en", "it"}]
FilesDef ==
  { File(<<Walk("default", Both, <<Item(m1, 0)>>, Part)>>),
    File(<<Walk("default", Both, <<Item(m1, 0)>>, Part), Visit>>),
    File(<<Walk("own", Both, <<Item(m1, 0)>>, Unlisted)>>),
    File(<<Walk("default", <<square, square>>, <<Item(m1, 0)>>, Part)>>),
    File(<<Walk("default", Both, <<Item(m2, 0)>>, Part)>>),
    File(<<Walk("default", Both, <<Item(m1, 0)>>, Unlisted)>>) }

\* Tours that are there before the import, or come after it.
Row(variant, stops, ks, items, c) ==
  [variant |-> variant, stops |-> stops, tags |-> ks, items |-> items, cover |-> c,
   texts |-> [l \in Codes |->
     IF l = "it" THEN [described |-> {harbour}, ready |-> TRUE, published |-> TRUE] ELSE None]]
FoundDef ==
  { Row("stops", <<harbour>>, {}, <<Item(m1, 0)>>, m1),
    Row("stops", <<harbour, square>>, {k1, k2}, <<Item(m2, 0), Item(m1, 1)>>, None) }

\* Widgets: each provider switched and only named, the account whole, half, with an unknown
\* key and with a blank text; the switch on its own.
Half == "companyId" :> account
Account == Half @@ "storefrontId" :> account
Turitop == "provider" :> "turitop"
Understory == "provider" :> "understory"
On == "enabled" :> TRUE
Settings(s) == "settings" :> s
SentDef ==
  { Turitop @@ On, Understory, Understory @@ On, Understory @@ Settings(Half),
    Understory @@ On @@ Settings(Account), Understory @@ Settings("companyId" :> Spaces),
    "provider" :> Null @@ "enabled" :> FALSE, On, "enabled" :> FALSE,
    Settings(Account), Settings("listing" :> account) }
===============================================================================
