---------------------------- MODULE MCProposalTurns ----------------------------
(* Utterances about a dog, a cat and a car, one of each thing the code tells apart. *)
EXTENDS ProposalTurns

Named(t) == [text |-> t, ref |-> "named"]
Rex == Named("Rex")
Mia == Named("Mia")
Car == [text |-> "car", ref |-> "possessive"]
It  == [text |-> "it", ref |-> "contextual"]
Cats == [text |-> "cats", ref |-> "class"]
Uno == Named("Uno")

Said(kind, m, dim, val) ==
  [kind |-> kind, subject |-> m, object |-> NoMention, dim |-> dim, val |-> val, origin |-> "explicit"]
From(origin, c) == [c EXCEPT !.origin = origin]

Color(m, v)  == [Unsaid EXCEPT !.cues = {"stable"}, !.exprs = {"attribute"}, !.subject = m,
                               !.attr = [dim |-> "color", val |-> v]]
Weight(m, d, v) == [Unsaid EXCEPT !.cues = {"measure"}, !.exprs = {"measurement"}, !.subject = m,
                                  !.meas = [dim |-> d, val |-> v]]
Likes(m, n)  == [Unsaid EXCEPT !.cues = {"link"}, !.exprs = {"relation"}, !.subject = m, !.object = n,
                               !.rel = "likes", !.time = "ok"]
Sick(v)      == [Unsaid EXCEPT !.cues = {"condition"}, !.subject = Rex, !.state = v, !.time = "ok",
                               !.alias = IF v = "" THEN "none" ELSE "one",
                               !.exprs = IF v = "" THEN {} ELSE {"state"}]
Vet          == [Unsaid EXCEPT !.exprs = {"action"}, !.aspect = "happened", !.subject = Rex,
                               !.alias = "one", !.time = "ok", !.reports = FALSE]
Model(m)     == [Color(m, "fiat") EXCEPT !.attr.dim = "brand", !.time = "ok",
                                         !.beside = <<[dim |-> "model", val |-> "uno"]>>]
Mending(p, w) == [p EXCEPT !.utterance = "correct", !.cues = @ \cup {"correction"}, !.wording = w]

MCUtterances ==
  { Color(Rex, "brown"), [Color(Rex, "black") EXCEPT !.cutShort = TRUE, !.attr = NoValue],
    [Color(Cats, "black") EXCEPT !.others = <<Mia>>],
    [Color(Car, "blue") EXCEPT !.time = "ok", !.claims =
      <<Said("attribute", Car, "color", "blue"), Said("attribute", Car, "brand", "fiat"),
        From("derived", Said("attribute", Car, "age", "old"))>>],
    [Color(Car, "blue") EXCEPT !.time = "ok", !.claims =
      <<From("assumed", Said("attribute", Car, "brand", "fiat")),
        Said("attribute", Car, "color", "blue"), Said("relation", Rex, "", "")>>],
    [Unsaid EXCEPT !.cues = {"class"}, !.subject = Rex],
    [Unsaid EXCEPT !.cues = {"class"}, !.subject = Rex, !.claims =
      <<Said("class", Rex, "dog", "dog"), Said("measurement", Rex, "weight", "30")>>],
    Weight(Rex, "weight", "30"), Weight(NoMention, "weight", "30"), Weight(Rex, "", "30"),
    Weight(Car, "", "30"), [Likes(It, NoMention) EXCEPT !.time = "ok"],
    [Weight(Named("scale"), "weight", "30") EXCEPT !.exprs = {"action"}, !.aspect = "happened"],
    [Vet EXCEPT !.cues = {"measure"}, !.meas = [dim |-> "weight", val |-> "31"]],
    [Vet EXCEPT !.alias = "none"], [Vet EXCEPT !.alias = "blocked", !.time = "bad"],
    Likes(Rex, Mia), Likes(Rex, NoMention), [Likes(Rex, Mia) EXCEPT !.life = "end"],
    [Likes(It, Mia) EXCEPT !.life = "deny"], [Likes(Rex, Named("Ana")) EXCEPT !.time = "vague"],
    Sick("sick"), Sick(""), [Sick("well") EXCEPT !.others = <<Mia>>],
    [Sick("sick") EXCEPT !.cues = {"condition", "class"}],
    Mending(Color(Rex, "black"), {"meta"}), Mending(Color(It, "black"), {"termination"}),
    [Mending(Color(Rex, ""), {"weak", "pronoun"}) EXCEPT !.op = "retract"],
    [Mending(Color(Rex, ""), {"perceptual"}) EXCEPT !.op = "retract", !.attr = NoValue],
    [Mending(Weight(Rex, "weight", "32"), {"short"}) EXCEPT !.op = "replace"],
    [Mending(Color(Cats, "black"), {"meta"}) EXCEPT !.target.kind = "attribute", !.target.row = 1],
    [Mending(Likes(Rex, Mia), {"meta"}) EXCEPT !.op = "retract"],
    [Mending(Likes(Rex, Mia), {"meta"}) EXCEPT !.target.kind = "relation", !.target.row = 1],
    [Mending(Likes(Rex, Car), {"meta"}) EXCEPT !.target.kind = "relation", !.target.row = 1],
    [Mending(Likes(Rex, Mia), {"meta"}) EXCEPT !.target.kind = "relation", !.target.row = 2],
    [Vet EXCEPT !.alias = "none", !.subject = NoMention],
    [Vet EXCEPT !.claims = <<Said("measurement", Cats, "weight", "30")>>],
    [Likes(Rex, Mia) EXCEPT !.life = "end", !.claims =
      <<Said("class", Rex, "dog", "dog"), [Said("relation", Rex, "likes", "") EXCEPT !.object = Mia]>>],
    [Color(Rex, "brown") EXCEPT !.claims = <<Said("attribute", Car, "brand", "fiat")>>],
    [Mending([Vet EXCEPT !.exprs = {}, !.hint = "event"], {"meta"})
       EXCEPT !.op = "replace", !.target.row = 1, !.target.kind = "event"],
    Model(Uno), [Model(Uno) EXCEPT !.claims = <<Said("attribute", Uno, "model", "uno")>>],
    [Model(Uno) EXCEPT !.claims = <<Said("class", Rex, "dog", "dog")>>],
    [Model(Uno) EXCEPT !.claims =
      <<Said("class", Rex, "dog", "dog"), Said("attribute", NoMention, "model", "uno")>>],
    Likes(Rex, Uno), Mending(Model(Rex), {"meta"}),
    [Likes(Rex, NoMention) EXCEPT !.meas = [dim |-> "weight", val |-> "30"]],
    [Color(Rex, "brown") EXCEPT !.meas = [dim |-> "weight", val |-> "30"]] }

MCAnswers ==
  { [text |-> "Mia", val |-> "", names |-> EntitySlots, ambiguous |-> FALSE],
    [text |-> "Uno", val |-> "", names |-> EntitySlots, ambiguous |-> FALSE],
    [text |-> "Ana", val |-> "", names |-> EntitySlots, ambiguous |-> TRUE],
    [text |-> "weight", val |-> "", names |-> {"measurement_dimension"}, ambiguous |-> FALSE],
    [text |-> "sick", val |-> "", names |-> {"state_value"}, ambiguous |-> FALSE] }
===============================================================================
