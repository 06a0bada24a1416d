------------------------------ MODULE MCScoring ------------------------------
(* A small instance of GoldenScoring: a dataset of two cases.  The first has a *)
(* LOT number of every sort, alone or with a text; its run reads up to two     *)
(* candidates, right, wrong, doubtful, duplicated or unexpected.  The second   *)
(* is one text.                                                               *)
EXTENDS GoldenScoring

MCKinds == {"lot", "text"}
MCNormalForm == "01" :> "01" @@ " 01" :> "01" @@ "02" :> "02" @@ None :> None

Lot(required, ignored, value, reasons) ==
  [row |-> 1, name |-> "LOT", kind |-> "lot", required |-> required, ignored |-> ignored,
   value |-> value, page |-> 1, reasons |-> reasons, allowed |-> {"trim"}]
Text(required) ==
  [row |-> 2, name |-> "TEXT", kind |-> "text", required |-> required, ignored |-> FALSE,
   value |-> "02", page |-> 1, reasons |-> {}, allowed |-> {}]

Handwriting == {"HANDWRITING_REFERENCE_ONLY"}
Absent == {"MISSING_REQUIRED"}
Doubt == {"LOW_CONFIDENCE"}
GoldenLots ==
  {Lot(required, FALSE, " 01", reasons) : required \in BOOLEAN, reasons \in {{}, Handwriting}}
  \cup {Lot(FALSE, TRUE, " 01", reasons) : reasons \in {{}, Handwriting}}
  \cup {Lot(required, FALSE, None, Absent) : required \in BOOLEAN}
  \cup {Lot(TRUE, FALSE, " 01", Doubt), Lot(FALSE, FALSE, None, {})}
GoldenCases ==
  {<<lot>> : lot \in GoldenLots}
  \cup {<<lot, Text(required)>> : lot \in GoldenLots, required \in BOOLEAN}

Reading(name, row, kind, value, page, reasons, applied) ==
  [row |-> row, name |-> name, kind |-> kind, value |-> value, page |-> page,
   reasons |-> reasons, applied |-> applied]
LotReading(value, page, reasons, applied) ==
  Reading("LOT", 1, "lot", value, page, reasons, applied)
Twin == {"DUPLICATE_FIELD"}
Readings ==
  {LotReading(" 01", 1, reasons, {}) :
     reasons \in {{}, Doubt, Handwriting, Twin, {"LOGIC_CONFLICT"}, {"PAGE_MISMATCH"}}}
  \cup {LotReading("01", 1, {}, {"trim"}), LotReading("01", 1, {}, {"upper"}),
        LotReading("02", 1, {}, {}), LotReading(None, 1, Absent, {}),
        LotReading(" 01", 2, {}, {}), Reading("LOT", 1, "text", " 01", 1, {}, {}),
        Reading("TEXT", 2, "text", "02", 1, {}, {}),
        Reading("TEXT", 2, "text", "01", 1, Twin, {})}
  \cup {Reading("OTHER", 3, "text", "02", 1, reasons, {}) : reasons \in {{}, Doubt, Twin}}

Odd == Reading("OTHER", 3, "text", "02", 1, {}, {})

Offer(fields, values, failure, warned, bound, sameKind) ==
  [fields |-> fields, values |-> values, failure |-> failure, warned |-> warned,
   bound |-> bound, sameKind |-> sameKind]
FirstOffers ==
  {Offer(fields, values, 0, FALSE, TRUE, TRUE) :
     fields \in GoldenCases, values \in {<<>>} \cup {<<a>> : a \in Readings}}
  \cup {Offer(<<lot, Text(TRUE)>>, <<a, b>>, 0, FALSE, TRUE, TRUE) :
          lot \in GoldenLots, a \in Readings, b \in Readings}
  \cup {Offer(<<lot>>, <<a>>, failure, warned, bound, sameKind) :
          lot \in GoldenLots, a \in {LotReading(" 01", 1, {}, {}), Odd},
          failure \in {0, 2, 7}, warned \in BOOLEAN, bound \in BOOLEAN, sameKind \in BOOLEAN}
Second == Reading("TEXT", 2, "text", "02", 1, {}, {})
SecondOffers ==
  {Offer(<<Text(TRUE)>>, values, 0, FALSE, TRUE, TRUE) :
     values \in {<<>>, <<Second>>, <<Second, Reading("OTHER", 2, "lot", "01", 1, {}, {})>>}}
MCOffers == <<FirstOffers, SecondOffers>>

ScoringSpec == InitScoring /\ [][NextScoring]_scoringVars
=============================================================================
