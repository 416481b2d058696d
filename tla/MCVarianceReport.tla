-------------------------- MODULE MCVarianceReport --------------------------
EXTENDS VarianceReport, TLC

(* Month m of 2026 and of the year before. *)
In2026(m) == 12 * 2026 + m - 1
In2025(m) == 12 * 2025 + m - 1

Entry(company, month, account, path, plan, planPrice, price, pf, af) ==
  [company |-> company, month |-> month, account |-> account, cost |-> account # "41000",
   internal |-> FALSE, path |-> path, plan |-> plan, planPrice |-> planPrice, price |-> price,
   pf |-> pf, af |-> af]

(* History without a plan; three matched revenue keys, one of them planned *)
(* at no quantity's price, a matched cost, and an intercompany sale.       *)
MCKeyInfo ==
  [lastJan |-> Entry("pl", In2025(1), "41000", <<"data", "junior">>, 0, 3, 3, 1, 1),
   lastNov |-> Entry("pl", In2025(11), "41000", <<"data", "junior">>, 0, 3, 3, 1, 1),
   jan     |-> Entry("pl", In2026(1), "41000", <<"data", "junior">>, 2, 3, 5, 1, 2),
   feb     |-> Entry("de", In2026(2), "41000", <<"data", "senior">>, 1, 7, 4, 2, 3),
   mar     |-> Entry("pl", In2026(3), "41000", <<"cloud", "senior">>, 3, 5, 5, 1, 1),
   cost    |-> Entry("pl", In2026(2), "51000", <<"cloud", "junior">>, 2, 3, 5, 1, 2),
   internal |-> [Entry("de", In2026(1), "41000", <<"data", "senior">>, 1, 7, 7, 2, 2)
                   EXCEPT !.internal = TRUE]]
MCKeys == DOMAIN MCKeyInfo

First(key, voucher, quantity) ==
  [key |-> key, version |-> 1, voucher |-> voucher, quantity |-> quantity, deleted |-> FALSE]

Posted1 ==
  {First("lastJan", 1, 2), First("lastNov", 2, 1), First("jan", 3, 4), First("feb", 4, 3),
   First("mar", 5, 1), First("cost", 6, 3), First("internal", 7, 2)}

(* The seed posts some keys twice in one close.  No line of the downside   *)
(* is staged.                                                              *)
MCPosted == Posted1 \cup {First("mar", 8, 5)}
MCRestatable == {"jan", "cost"}
MCTrued == [q \in 0 .. 9 |-> q + 1]

Month(m) == [unit |-> 1, index |-> m]
Quarter(year, n) == [unit |-> 3, index |-> 4 * year + n - 1]
Year(y) == [unit |-> 12, index |-> y]

Dim(keys) == [on |-> "dimension", keys |-> keys]
Least(n) == [on |-> "measure", least |-> n]

Ask(where, connectors, functions, by, from, to) ==
  [where |-> where, connectors |-> connectors, functions |-> functions, by |-> by,
   from |-> from, to |-> to, kind |-> "additive"]
Fn(name, offset) == [name |-> name, offset |-> offset]
Plain == {Fn("plain", 0)}

Practice == Dim({"lastJan", "lastNov", "jan", "feb", "internal"})
Junior == Dim({"lastJan", "lastNov", "jan", "cost"})
Sales == Dim(MCKeys \ {"cost"})

MCQuestions ==
  {Ask(<<Practice, Junior, Sales>>, <<"OR", "AND">>, Plain, TRUE, Quarter(2026, 1), Quarter(2026, 1)),
   Ask(<<Sales, Practice, Junior>>, <<"AND", "OR">>, Plain, FALSE, Year(2025), Month(In2026(2))),
   Ask(<<Least(5), Practice, Junior>>, <<"AND", "AND">>, Plain, TRUE, Year(2026), Year(2026)),
   Ask(<<Least(5), Practice>>, <<"OR">>, Plain, TRUE, Year(2026), Year(2026)),
   Ask(<<Least(9), Least(2)>>, <<"OR">>, Plain, TRUE, Year(2026), Year(2026)),
   Ask(<<>>, <<>>, {Fn("YOY", 0), Fn("plain", 0)}, TRUE, Month(In2026(1)), Month(In2026(3))),
   Ask(<<Sales>>, <<>>, {Fn("PRIOR", 2), Fn("LEAD", 0)}, FALSE, Month(In2026(1)), Month(In2026(1))),
   Ask(<<>>, <<>>, {Fn("ROLLING", 0)}, TRUE, Month(In2026(1)), Quarter(2026, 1)),
   Ask(<<>>, <<>>, {Fn("YTD", 0)}, FALSE, Month(In2026(2)), Month(In2026(3))),
   Ask(<<>>, <<>>, {Fn("QTD", 0), Fn("CAGR", 1)}, TRUE, Month(In2026(3)), Month(In2026(3))),
   Ask(<<Least(3)>>, <<>>, {Fn("YTD", 0), Fn("PRIOR", 4)}, TRUE, Month(In2026(3)), Month(In2026(3)))}

(* Revenue by practice and grade, and the margin of the Polish juniors.    *)
MCBridgeQueries ==
  {[where |-> <<>>, connectors |-> <<>>, from |-> Quarter(2026, 1), to |-> Quarter(2026, 1),
    accounts |-> {"41000"}, levels |-> 2],
   [where |-> <<Junior>>, connectors |-> <<>>, from |-> Year(2026), to |-> Year(2026),
    accounts |-> {"41000", "51000"}, levels |-> 1]}

MCUserInfo ==
  [analyst |-> [scope |-> {"pl"}, human |-> TRUE, closer |-> FALSE],
   controller |-> [scope |-> {"pl", "de"}, human |-> TRUE, closer |-> TRUE],
   agent |-> [scope |-> {"pl", "de"}, human |-> FALSE, closer |-> TRUE]]

MCScenarios == <<"base", "downside">>
MCStaged ==
  [base |-> [k \in {"jan", "mar", "cost"} |->
               [quantity |-> IF k = "mar" THEN 0 ELSE MCKeyInfo[k].plan + 2,
                price |-> MCKeyInfo[k].planPrice + 1]],
   downside |-> << >>]
=============================================================================
