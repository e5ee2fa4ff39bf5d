-------------------------- MODULE MC_ReviewPipeline --------------------------
(***************************************************************************)
(* Characters, in code point order: 1 tab (refused), 2 hyphen, 3 slash,    *)
(* 4 the digit 5, 5 A (a flag), 6 B (a flag), 7 a, 8 b, 9 Cyrillic ya,     *)
(* 10 space, 11 apostrophe; 20 is the tag po:noun.                         *)
(***************************************************************************)
EXTENDS ReviewPipeline

MCIgnored  == {}
MCComposed == [p \in {} |-> 0]
MCLowerOf  == 5 :> 7 @@ 6 :> 8
MCBaseOf   == [c \in {} |-> 0]
MCAlphabetic == {5, 6, 7, 8, 9}

MCAlphabet == {7, 8}
MCCategory == 1 :> "Cc" @@ 2 :> "Pd" @@ 3 :> "Po" @@ 4 :> "Nd" @@ 5 :> "Lu" @@ 6 :> "Lu"
                @@ 7 :> "Ll" @@ 8 :> "Ll" @@ 9 :> "Ll" @@ 10 :> "Zs" @@ 11 :> "Pf"
MCScript == [c \in DOMAIN MCCategory |->
               IF c = 9 THEN "Cyrillic" ELSE IF c \in {5, 6, 7, 8} THEN "Latin" ELSE "Common"]
MCPartOfSpeech == 20 :> "noun"
MCDigit == 4 :> 5

Line(word, flags) == [word |-> word, flags |-> flags, morphology |-> <<>>]

ab  == <<7, 8>>
ba  == <<8, 7>>
aHb == <<7, 2, 8>>
yaya == <<9, 9>>
aya == <<7, 9>>
A   == <<5>>
B   == <<6>>

\* A count, a group of two, a held word, a word outside the alphabet, a refused line.
Dictionary1 == <<Line(<<4>>, <<>>), Line(ab, A), Line(ba, <<>>), Line(ab, B),
                 Line(aHb, <<>>), Line(yaya, <<>>), Line(<<7, 1>>, <<>>)>>

\* The same counts; another word where the group of the first one was, with new flags.
Dictionary2 == <<Line(ab, A), Line(ba, A), Blank, Line(ab, B),
                 Line(aHb, <<>>), [Line(yaya, <<>>) EXCEPT !.morphology = <<20>>],
                 Line(<<7, 1>>, <<>>)>>

\* A line that cannot be decoded.
Dictionary3 == <<Line(ba, <<>>), BadUtf8, Line(ab, <<>>)>>

\* A word suspicious for two reasons.
Dictionary4 == <<Line(ba, <<>>), Line(aya, <<>>), Line(ab, <<>>)>>

MCDictionary == <<Dictionary1, Dictionary2, Dictionary3, Dictionary4>>

MCSeed == {<<7, 7>>}

Shown(display, flags, morphology) ==
  [display |-> display, normalized |-> display, flags |-> flags, morphology |-> morphology]

Decision(type, target, status, seen) ==
  [type |-> type, target |-> target, status |-> status, reviewer |-> "r1",
   date |-> <<2024, 2, 29>>, notes |-> TRUE, evidence |-> FALSE,
   replacement |-> None, resolution |-> None, seen |-> seen]

OnEntry(revision, status, seen) ==
  Decision("entry",
           EntryId(Hunspell(revision), seen.display, seen.normalized, seen.flags,
                   seen.morphology), status, seen)

MemberAB(revision, flags) == EntryId(Hunspell(revision), ab, ab, flags, <<>>)
GroupAB(revision) ==
  GroupId(ab, {[line |-> 1, id |-> MemberAB(revision, A)],
               [line |-> 2, id |-> MemberAB(revision, B)]})

Select(revision, flags) ==
  [Decision("conflict_group", GroupAB(revision), "Approved", Shown(ab, flags, <<>>))
   EXCEPT !.resolution = [kind |-> "select_member", member |-> MemberAB(revision, flags),
                          replacement |-> None]]

Replacement(display, flags) ==
  [display |-> display, normalized |-> display, flags |-> flags, morphology |-> None,
   pos |-> None]

MCDecisionFiles ==
  <<<<OnEntry(1, "Approved", Shown(ba, <<>>, <<>>)),
      OnEntry(1, "Approved", Shown(ab, B, <<>>)),
      Select(1, A)>>,
    <<OnEntry(1, "Approved", Shown(ab, A, <<>>)),
      OnEntry(2, "Approved", Shown(ab, A, <<>>)),
      [OnEntry(2, "ApprovedWithMetadataChange", Shown(ba, A, <<>>))
       EXCEPT !.replacement = Replacement(<<8, 8, 7>>, None)],
      OnEntry(1, "RejectedFromDefaultPack", Shown(yaya, <<>>, <<>>)),
      OnEntry(1, "ExperimentalOnly", Shown(ba, <<>>, <<>>)),
      [Select(1, A) EXCEPT !.resolution = [kind |-> "replace_group", member |-> None,
                                           replacement |-> Replacement(<<7, 7, 8>>, A)]],
      [Select(2, B) EXCEPT !.status = "ExperimentalOnly", !.resolution = None]>>>>

Batch == <<"kuwiki-batch-001", "c1">>
MCKuwiki ==
  {[batch |-> Batch,
    candidates |-> <<[token |-> ba, normalized |-> ba],
                     [token |-> <<8, 8>>, normalized |-> <<8, 8>>]>>,
    decisions |-> <<[status |-> "ExperimentalOnly",
                     target |-> EntryId(Batch, ba, ba, <<>>, <<>>)],
                    [status |-> "Approved",
                     target |-> EntryId(Batch, <<8, 8>>, <<8, 8>>, <<>>, <<>>)]>>]}

\* data/pack-policy.toml as it is committed.
PackOf(optIn, default, profile, model) ==
  [opt_in |-> optIn, allow_as_default |-> default, model_profile |-> profile,
   language_model |-> model]
MCPolicy ==
  [default |-> "seed",
   packs |-> "seed" :> PackOf(FALSE, TRUE, "none", None)
             @@ "reviewed" :> PackOf(FALSE, TRUE, "prediction", "kuwiki-20260801")
             @@ "experimental-full" :> PackOf(TRUE, FALSE, "prediction", "kuwiki-20260801")]

MCFrequency == ba :> <<2, 3>> @@ ab :> <<2, 4>>
=============================================================================
