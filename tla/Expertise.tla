----------------------------- MODULE Expertise -----------------------------
(***************************************************************************)
(* Research groups, their researches and contents, and the expertise that  *)
(* reviews give and take.  A review or a vote for one moves the            *)
(* contribution index (eci) of a content and of its research; the block    *)
(* collects the differences, and its end hands them on to reviewers,       *)
(* authors and supporters as expert tokens.  One group works on            *)
(* researches that share their disciplines.  What only history operations  *)
(* and queries read (weights of votes, assessment criteria, counters of    *)
(* reviews) is left out, and so is the right to vote, which every account  *)
(* has: nothing sets can_vote.  The active authority of the group, which   *)
(* joining and leaving change too, is the matter of module Accounts.       *)
(***************************************************************************)
EXTENDS Balances, SequencesExt

CONSTANTS Founder,             \* the account that created the group
          Disciplines,         \* the disciplines of the researches
          Lineage,             \* for every discipline: itself and its ancestors
                               \* below the common one, as a sequence
          FirstExpertise,      \* the expert tokens at genesis: FirstExpertise[a] gives
                               \* the amount for each discipline a has a token of
          MinShare,            \* DEIP_1_PERCENT
          ReviewersPercent,    \* 30 percent of a difference
          AuthorsPercent,      \* 70 percent
          CuratorBonus,        \* DEIP_CURATOR_INFLUENCE_BONUS
          Regeneration,        \* DEIP_VOTE_REGENERATION_SECONDS, in blocks
          SpreadDenominator,   \* DEIP_REVIEW_VOTE_SPREAD_DENOMINATOR
          VoteWeights,         \* the weights votes are given, in hundredths of a percent
          IntLimit,            \* stands for 2^31
          Int64Limit,          \* stands for 2^63
          DiffLimit,           \* the least difference whose product with a percentage
                               \* overflows int64_t
          MaxResearches, MaxContents

\* The least int64_t: what the conversion of NaN gives on x86-64.
NaNWeight == -Int64Limit

NoToken == [none |-> TRUE]
AllDisciplines == UNION {ToSet(Lineage[d]) : d \in DOMAIN Lineage}

ASSUME ExpertiseAssumption ==
    /\ Founder \in Accounts
    /\ Disciplines \subseteq DOMAIN Lineage /\ DOMAIN Lineage = AllDisciplines
    /\ \A d \in DOMAIN Lineage : Head(Lineage[d]) = d
    /\ {ReviewersPercent, AuthorsPercent} \subseteq 0..HundredPercent
    /\ {MinShare, CuratorBonus, MaxResearches, MaxContents} \subseteq Nat
    /\ {Regeneration, SpreadDenominator, IntLimit, Int64Limit} \subseteq Nat \ {0}
    /\ DiffLimit \in 1..Int64Limit
    /\ VoteWeights \subseteq 1..HundredPercent

VARIABLES rgt,             \* research_group_token_objects, by creation
          researches,      \* research_objects: members, is_finished, eci_per_discipline
          contents,        \* research_content_objects
          reviews,         \* review_objects: used is expertise_tokens_amount_by_discipline
          review_votes,    \* review_vote_objects
          contribution,    \* expertise_contribution_objects: contribution[content][discipline]
          altered,         \* the index by_has_eci_current_block_diffs: those with differences
          expert,          \* expert_token_objects: expert[account][discipline]
          expertise,       \* account_object::expertise_tokens_balance
          total_expertise, \* total_expert_tokens_amount of the global properties
          clamped          \* history: a balance was kept from going below zero

reviewVars == <<reviews, review_votes>>
tokenVars == <<expert, expertise, total_expertise, clamped>>
expertiseVars == <<rgt, researches, contents, reviewVars, contribution, altered, tokenVars>>

Owners == {rgt[i].owner : i \in DOMAIN rgt}

TokenSum(tokens, a) ==
    MapThenSumSet(LAMBDA d : tokens[a][d].amount, {d \in AllDisciplines : tokens[a][d] # NoToken})

NoEci == [d \in Disciplines |-> 0]

\* Genesis: the founder's group with one research, and the expert tokens.
InitExpertise ==
    /\ rgt = <<[owner |-> Founder, amount |-> HundredPercent]>>
    /\ researches = <<[members |-> {Founder}, finished |-> FALSE, eci |-> NoEci]>>
    /\ contents = <<>> /\ reviews = <<>> /\ review_votes = <<>>
    /\ contribution = <<>> /\ altered = <<>>
    /\ expert = [a \in Accounts |-> [d \in AllDisciplines |->
                    IF d \notin DOMAIN FirstExpertise[a] THEN NoToken
                    ELSE [amount |-> FirstExpertise[a][d], power |-> HundredPercent, last |-> 0]]]
    /\ expertise = [a \in Accounts |-> TokenSum(expert, a)]
    /\ total_expertise = MapThenSumSet(LAMBDA a : expertise[a], Accounts)
    /\ clamped = FALSE

-----------------------------------------------------------------------------
(* Groups and researches *)

ShareSum(tokens) == FoldLeft(LAMBDA sum, t : sum + t.amount, 0, tokens)

\* add_member_to_research_group, invited by the group: the members are
\* diluted down to a floor, the new one gets the rest.
WithMember(member) ==
    LET share   == HundredPercent \div (Len(rgt) + 1)
        diluted == [i \in DOMAIN rgt |->
                      [rgt[i] EXCEPT !.amount = Max({@ - (share * @) \div HundredPercent, MinShare})]]
    IN  Append(diluted, [owner |-> member, amount |-> HundredPercent - ShareSum(diluted)])

\* The member the code takes for the weakest: the least share, except that a
\* share of zero gives way to the next one.
Weakest(tokens) ==
    FoldLeft(LAMBDA w, t : IF w.amount = 0 \/ w.amount > t.amount THEN t ELSE w, Head(tokens), Tail(tokens))

ShareOf(member) == rgt[CHOOSE i \in DOMAIN rgt : rgt[i].owner = member].amount

\* remove_member_from_research_group: the shares grow in proportion, and what
\* the divisions leave goes to the weakest member.
WithoutMember(member) ==
    LET rest  == SelectSeq(rgt, LAMBDA t : t.owner # member)
        grown == [i \in DOMAIN rest |-> [rest[i] EXCEPT
                    !.amount = (@ * HundredPercent) \div (HundredPercent - ShareOf(member))]]
    IN  [i \in DOMAIN grown |->
            IF grown[i] # Weakest(grown) THEN grown[i]
            ELSE [grown[i] EXCEPT !.amount = @ + HundredPercent - ShareSum(grown)]]

\* The researches of the list, or all of the group's when there is none.
join_research_group_membership(member, list) ==
    /\ member \notin Owners
    /\ researches' = [r \in DOMAIN researches |->
                        IF r \in list THEN [researches[r] EXCEPT !.members = @ \cup {member}]
                        ELSE researches[r]]
    /\ rgt' = WithMember(member)
    /\ UNCHANGED <<contents, reviewVars, contribution, altered, tokenVars>>

\* Mutant of ResearchesWithout: who leaves the group stays with its researches.
ResearchesAsTheyAre(member) == researches

ResearchesWithout(member) ==
    [r \in DOMAIN researches |-> [researches[r] EXCEPT !.members = @ \ {member}]]

\* The last member cannot leave: the shares would not add up.  Neither can one
\* who has the whole: the division by the others' shares fails.
leave_research_group_membership(member) ==
    /\ member \in Owners /\ Len(rgt) > 1 /\ ShareOf(member) # HundredPercent
    /\ researches' = ResearchesWithout(member)
    /\ rgt' = WithoutMember(member)
    /\ UNCHANGED <<contents, reviewVars, contribution, altered, tokenVars>>

create_research(members) ==
    /\ Len(researches) < MaxResearches
    /\ members \subseteq Owners
    /\ researches' = Append(researches, [members |-> members, finished |-> FALSE, eci |-> NoEci])
    /\ UNCHANGED <<rgt, contents, reviewVars, contribution, altered, tokenVars>>

update_research(r, members) ==
    /\ members \subseteq Owners
    /\ researches' = [researches EXCEPT ![r].members = members]
    /\ UNCHANGED <<rgt, contents, reviewVars, contribution, altered, tokenVars>>

TeamOps ==
    \/ \E a \in Accounts, list \in SUBSET DOMAIN researches :
          join_research_group_membership(a, list)
    \/ \E a \in Accounts : leave_research_group_membership(a)
    \/ \E ms \in SUBSET Accounts :
          create_research(ms) \/ \E r \in DOMAIN researches : update_research(r, ms)

-----------------------------------------------------------------------------
(* Evaluation, of the reviews rs and the votes vs *)

ReviewsOf(rs, c, d) == {i \in DOMAIN rs : rs[i].content = c /\ d \in DOMAIN rs[i].used}
VotesFor(vs, i, d) == Cardinality({v \in DOMAIN vs : vs[v].review = i /\ vs[v].discipline = d})

\* std::accumulate keeps the sum in an int, and the division by a size_t takes
\* a negative sum for a number of 64 bits without sign.
AsInt(sum) == ((sum + IntLimit) % (2 * IntLimit)) - IntLimit
AsUnsigned(n) == IF n < 0 THEN n + 2 * Int64Limit ELSE n

\* get_eci_weight: Cr * Er is (Er_avg + (n - 1) * Er) / n, rounded (doubles are
\* taken to be exact); without expertise it is NaN.  What does not fit int64_t
\* converts to the same number as NaN.
get_eci_weight(rs, vs, i, d) ==
    LET peers == ReviewsOf(rs, rs[i].content, d)
        n     == Cardinality(peers)
        Er    == rs[i].used[d]
        avg   == AsUnsigned(AsInt(MapThenSumSet(LAMBDA j : rs[j].used[d], peers))) \div n
        size  == (2 * (avg + (n - 1) * Er) + n) \div (2 * n) + VotesFor(vs, i, d) * CuratorBonus
    IN  CASE Er = 0 \/ size >= Int64Limit -> NaNWeight
          [] Er # 0 /\ size < Int64Limit  -> IF rs[i].positive THEN size ELSE -size

\* dbs_research_content::get_eci_evaluation
ContentEci(rs, vs, c) ==
    [d \in Disciplines |-> MapThenSumSet(LAMBDA i : get_eci_weight(rs, vs, i, d), ReviewsOf(rs, c, d))]

\* What a reviewer of milestones counts for: a review replaces the weight
\* before it if its expertise alone exceeds that weight, bonus included.
MilestoneWeight(rs, vs, order, d) ==
    FoldLeft(LAMBDA w, i : IF w < rs[i].used[d] THEN rs[i].used[d] + VotesFor(vs, i, d) * CuratorBonus
                           ELSE w, 0, order)

\* dbs_research::get_eci_evaluation: the final result by its reviews, and each
\* reviewer of milestones who did not review it by his weights.
ResearchEci(cs, rs, vs, r) ==
    LET own       == {c \in DOMAIN cs : cs[c].research = r}
        final     == {c \in own : cs[c].final}
        judges    == {rs[i].author : i \in {j \in DOMAIN rs : rs[j].content \in final}}
        milestone == {i \in DOMAIN rs : rs[i].content \in own \ final /\ rs[i].author \notin judges}
        ordered(a, d, pos) ==
            SetToSortSeq({i \in milestone : rs[i].author = a /\ d \in DOMAIN rs[i].used
                                            /\ rs[i].positive = pos},
                         LAMBDA i, j : \/ rs[i].content < rs[j].content
                                       \/ rs[i].content = rs[j].content /\ i < j)
    IN  [d \in Disciplines |->
           MapThenSumSet(LAMBDA c : ContentEci(rs, vs, c)[d], final)
           + MapThenSumSet(LAMBDA a : MilestoneWeight(rs, vs, ordered(a, d, TRUE), d)
                                      - MilestoneWeight(rs, vs, ordered(a, d, FALSE), d),
                           {rs[i].author : i \in milestone})]

-----------------------------------------------------------------------------
(* Contents, reviews and votes *)

\* Mutant of update_eci_evaluation: only a research that is not finished is
\* evaluated again.
update_unfinished_only(cs, rs, vs, r) ==
    IF researches[r].finished THEN researches[r].eci ELSE ResearchEci(cs, rs, vs, r)

\* dbs_research::update_eci_evaluation: what becomes of the stored value.
update_eci_evaluation(cs, rs, vs, r) == ResearchEci(cs, rs, vs, r)

\* adjust_expertise_contribution, for the given disciplines of content c: the
\* difference is queued for the end of the block.
Adjusted(contr, c, ds, kind, by, eci) ==
    [contr EXCEPT ![c] = [d \in Disciplines |->
        IF d \notin ds THEN @[d]
        ELSE [eci   |-> eci[d],
              diffs |-> Append(@[d].diffs, [kind |-> kind, by |-> by, old |-> @[d].eci, new |-> eci[d]])]]]

\* The contributions that had no differences yet join the index at its end.
WithAltered(c, ds) ==
    altered \o SetToSeq({<<c, d>> : d \in {e \in ds : ~Contains(altered, <<c, e>>)}})

\* safe<int64_t> refuses sums and differences below the least number.
Representable(old, eci, whole) ==
    \A d \in Disciplines : Min({eci[d], eci[d] - old[d], whole[d]}) >= NaNWeight

\* The content and its research are evaluated again with the reviews rs and
\* the votes vs, and the differences of disciplines ds are queued.
Reevaluate(c, rs, vs, ds, kind, by) ==
    LET eci == ContentEci(rs, vs, c)
        r   == contents[c].research
        whole == update_eci_evaluation(contents, rs, vs, r)
    IN  /\ Representable(contents[c].eci, eci, whole)
        /\ reviews' = rs /\ review_votes' = vs
        /\ contents' = [contents EXCEPT ![c].eci = eci]
        /\ researches' = [researches EXCEPT ![r].eci = whole]
        /\ contribution' = Adjusted(contribution, c, ds, kind, by, eci)
        /\ altered' = WithAltered(c, ds)

create_research_content(r, authors, final) ==
    LET c  == Len(contents) + 1
        cs == Append(contents, [research |-> r, authors |-> authors, final |-> final, eci |-> NoEci])
        no == [d \in Disciplines |-> [eci |-> 0, diffs |-> <<>>]]
    IN  /\ c <= MaxContents
        /\ ~researches[r].finished
        /\ authors # {} /\ authors \subseteq researches[r].members
        /\ contents' = cs
        /\ researches' = [researches EXCEPT ![r].finished = final,
                             ![r].eci = update_eci_evaluation(cs, reviews, review_votes, r)]
        /\ contribution' = Adjusted(Append(contribution, no), c, Disciplines, "publication", Founder, NoEci)
        /\ altered' = WithAltered(c, Disciplines)
        /\ UNCHANGED <<rgt, reviewVars, tokenVars>>

\* The voting power of a token has grown since it was last used.
CurrentPower(t) ==
    Min({t.power + (HundredPercent * (now - t.last)) \div Regeneration, HundredPercent})

\* uint128_t(amount) * percent / 100%; of a negative amount it does not fit
\* to_uint64(), which throws.
UsedAmount(t, percent) == (t.amount * percent) \div HundredPercent

\* A review uses the tokens of its disciplines and none of their power
\* (DEIP_REVIEW_REQUIRED_POWER_PERCENT is 0).
create_review(author, c, positive, ds) ==
    LET t(d) == expert[author][d]
        used == [d \in ds |-> UsedAmount(t(d), CurrentPower(t(d)))]
    IN  /\ \A i \in DOMAIN reviews : ~(reviews[i].content = c /\ reviews[i].author = author)
        /\ author \notin Owners
        /\ ds # {} /\ \A d \in ds : t(d) # NoToken
        /\ \A d \in ds : used[d] >= 0
        /\ expert' = [expert EXCEPT ![author] = [d \in AllDisciplines |->
                         IF d \in ds THEN [t(d) EXCEPT !.power = CurrentPower(t(d)), !.last = now]
                         ELSE @[d]]]
        /\ Reevaluate(c, Append(reviews, [content |-> c, author |-> author,
                                          positive |-> positive, used |-> used]),
                      review_votes, ds, "review", author)
        /\ UNCHANGED <<rgt, expertise, total_expertise, clamped>>

vote_for_review(voter, i, d, weight) ==
    LET t    == expert[voter][d]
        used == (CurrentPower(t) * weight) \div HundredPercent
    IN  /\ d \in DOMAIN reviews[i].used
        /\ t # NoToken
        /\ ~\E v \in DOMAIN review_votes : /\ review_votes[v].review = i
                                           /\ review_votes[v].voter = voter
                                           /\ review_votes[v].discipline = d
        /\ UsedAmount(t, used) >= 0
        /\ expert' = [expert EXCEPT ![voter][d].power = CurrentPower(t) - used \div SpreadDenominator,
                                    ![voter][d].last = now]
        /\ Reevaluate(reviews[i].content, reviews,
                      Append(review_votes, [review |-> i, voter |-> voter, discipline |-> d]),
                      {d}, "review_support", voter)
        /\ UNCHANGED <<rgt, expertise, total_expertise, clamped>>

ReviewOps ==
    \/ \E r \in DOMAIN researches, as \in SUBSET Accounts, final \in BOOLEAN :
          create_research_content(r, as, final)
    \/ \E a \in Accounts, c \in DOMAIN contents, positive \in BOOLEAN, ds \in SUBSET Disciplines :
          create_review(a, c, positive, ds)
    \/ \E a \in Accounts, i \in DOMAIN reviews, d \in Disciplines, w \in VoteWeights :
          vote_for_review(a, i, d, w)

-----------------------------------------------------------------------------
(* At the end of a block *)

\* create_expert_token: the discipline and its ancestors up to the first one
\* the account has a token of.
NewTokens(tokens, a, d) ==
    {Lineage[d][i] : i \in {j \in DOMAIN Lineage[d] :
                               \A k \in 1..j : tokens[a][Lineage[d][k]] = NoToken}}

\* Mutant of Throughput: the global total is only raised.
RaisesOnly(r, a, delta) ==
    [r EXCEPT !.expertise[a] = Max({@ + delta, 0}),
              !.total        = @ + Max({delta, 0}),
              !.clamped      = @ \/ r.expertise[a] + delta < 0]

\* adjust_expertise_tokens_throughput, once for every token: neither balance
\* goes below zero.
Throughput(r, a, delta) ==
    [r EXCEPT !.expertise[a] = Max({@ + delta, 0}),
              !.total        = Max({@ + delta, 0}),
              !.clamped      = @ \/ r.expertise[a] + delta < 0]

\* adjust_expert_token, of an account, a discipline and an amount.
adjust_expert_token(r, step, time) ==
    LET new  == NewTokens(r.expert, step.to, step.discipline)
        some == IF new = {} THEN {step.discipline} ELSE new
    IN  FoldLeft(LAMBDA s, d : Throughput(s, step.to, step.delta),
                 [r EXCEPT !.expert[step.to] = [d \in AllDisciplines |->
                     IF d \notin some THEN @[d]
                     ELSE IF d \in new
                          THEN [amount |-> step.delta, power |-> HundredPercent, last |-> time]
                          ELSE [@[d] EXCEPT !.amount = @ + step.delta]]],
                 SetToSeq(some))

\* The reviews of one side by expertise, then by age.
Voters(c, d, positive) ==
    SetToSortSeq({i \in ReviewsOf(reviews, c, d) : reviews[i].positive = positive},
                 LAMBDA i, j : \/ reviews[i].used[d] > reviews[j].used[d]
                               \/ reviews[i].used[d] = reviews[j].used[d] /\ i < j)

TotalUsed(c, d, positive) ==
    FoldLeft(LAMBDA sum, i : sum + reviews[i].used[d], 0, Voters(c, d, positive))

\* The votes for the reviews of one side, without those of the account whose
\* review made the difference.
Supporters(c, d, positive, diff) ==
    LET side == {i \in ReviewsOf(reviews, c, d) : reviews[i].positive = positive}
        ids  == {v \in DOMAIN review_votes : /\ review_votes[v].review \in side
                                             /\ review_votes[v].discipline = d
                                             /\ review_votes[v].voter # diff.by}
    IN  SetToSortSeq(ids, LAMBDA v, w : \/ review_votes[v].review < review_votes[w].review
                                        \/ review_votes[v].review = review_votes[w].review /\ v < w)

\* What one difference of a contribution does, in order.  A rise rewards the
\* positive reviews, the authors and the supporters of positive reviews and
\* takes from the other side; a fall is the opposite.  Votes move no tokens of
\* supporters (the code adjusts by zero), and a publication gives its authors
\* an empty token.
Rewards(c, d, diff) ==
    LET delta == diff.new - diff.old
        size  == IF delta < 0 THEN -delta ELSE delta
        step(who, n) == [to |-> who, discipline |-> d, delta |-> n]
        sign(positive) == IF positive = (delta > 0) THEN 1 ELSE -1
        pool == (size * ReviewersPercent) \div HundredPercent
        side(positive) ==
            LET voters == Voters(c, d, positive)
                total  == TotalUsed(c, d, positive)
            IN  [k \in DOMAIN voters |->
                   step(reviews[voters[k]].author,
                        sign(positive) * ((pool * reviews[voters[k]].used[d]) \div total))]
        authors == SetToSortSeq(contents[c].authors, <)
        each == (((size * AuthorsPercent) \div HundredPercent)
                   * (HundredPercent \div Len(authors))) \div HundredPercent
        team == [k \in DOMAIN authors |-> step(authors[k], sign(TRUE) * each)]
        bonus(positive) ==
            LET votes == Supporters(c, d, positive, diff)
            IN  [k \in DOMAIN votes |-> step(review_votes[votes[k]].voter, sign(positive) * CuratorBonus)]
    IN  CASE delta # 0 /\ diff.kind = "review_support" -> side(TRUE) \o side(FALSE) \o team
          [] delta # 0 /\ diff.kind # "review_support" ->
               side(TRUE) \o side(FALSE) \o team \o bonus(TRUE) \o bonus(FALSE)
          [] delta = 0 /\ diff.kind = "publication" -> [k \in DOMAIN authors |-> step(authors[k], 0)]
          [] OTHER -> <<>>

\* calculate_share overflows on a difference that NaN or a wrapped sum made,
\* and refuses to divide by a side without expertise.
Rewardable(c, d, diff) ==
    LET delta == diff.new - diff.old
    IN  /\ delta > -DiffLimit /\ delta < DiffLimit
        /\ delta # 0 => \A positive \in BOOLEAN :
                            Voters(c, d, positive) # <<>> => TotalUsed(c, d, positive) > 0

\* distribute_reward: the tokens and balances the block leaves.
distribute_reward(time) ==
    LET start == [expert |-> expert, expertise |-> expertise, total |-> total_expertise,
                  clamped |-> clamped, ok |-> TRUE]
        one(c, d, r, diff) ==
            IF ~r.ok \/ ~Rewardable(c, d, diff) THEN [r EXCEPT !.ok = FALSE]
            ELSE FoldLeft(LAMBDA s, step : adjust_expert_token(s, step, time), r, Rewards(c, d, diff))
        all(r, key) == FoldLeft(LAMBDA s, diff : one(key[1], key[2], s, diff), r,
                                contribution[key[1]][key[2]].diffs)
    IN  FoldLeft(all, start, altered)

DiffsCleared ==
    [c \in DOMAIN contribution |-> [d \in Disciplines |-> [contribution[c][d] EXCEPT !.diffs = <<>>]]]

-----------------------------------------------------------------------------
\* The indices are what the reviews and votes of the moment say, in all three
\* tables that store them, and the differences queued for the end of the
\* block lead from value to value without a gap, so that no change is
\* rewarded twice or not at all.
EciIsCurrent ==
    /\ \A r \in DOMAIN researches :
          researches[r].eci = ResearchEci(contents, reviews, review_votes, r)
    /\ \A c \in DOMAIN contents :
          /\ contents[c].eci = ContentEci(reviews, review_votes, c)
          /\ \A d \in Disciplines :
                LET x == contribution[c][d]
                IN  /\ x.eci = contents[c].eci[d]
                    /\ (x.diffs # <<>>) = Contains(altered, <<c, d>>)
                    /\ x.diffs # <<>> => Last(x.diffs).new = x.eci
                    /\ \A k \in 1 .. Len(x.diffs) - 1 : x.diffs[k].new = x.diffs[k + 1].old

\* The balances that count expertise never lag behind the tokens: an account's
\* is at least what its tokens add up to, the global total lies between all
\* tokens and all balances, and the three are equal as long as no penalty took
\* more than there was (database::validate_invariants asserts total = balances
\* without that condition).
ExpertiseAddsUp ==
    LET tokens   == MapThenSumSet(LAMBDA a : TokenSum(expert, a), Accounts)
        balances == MapThenSumSet(LAMBDA a : expertise[a], Accounts)
    IN  /\ \A a \in Accounts : expertise[a] >= Max({TokenSum(expert, a), 0})
        /\ tokens <= total_expertise /\ total_expertise <= balances
        /\ ~clamped => tokens = balances

\* Who works on a research, and so may publish in its name, has a share in its
\* group, through joining, leaving and updates of the researches; nobody has
\* two, and the shares are the whole.  (The share of a member may be nothing:
\* the floor below the others can leave no rest for the last who joined.)
TeamsAreMembers ==
    /\ \A r \in DOMAIN researches : researches[r].members \subseteq Owners
    /\ Cardinality(Owners) = Len(rgt)
    /\ ShareSum(rgt) = HundredPercent
=============================================================================
