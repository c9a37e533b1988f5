SPECIFICATION MCSpec
CONSTANTS
    s1 = s1
    p1 = p1
    p2 = p2
    Subagents = {s1}
    TokenBudget = 7
    SubBudget = 1
    MaxTokens = 7
    MaxDirectives = 1
    Submissions = {p1, p2}
    x1 = x1
    x2 = x2
    r1 = r1
    r2 = r2
    Extensions = {x1, x2}
    Amount = 10
    FirstBudget = 20
    Reviews = {r1, r2}
    MaxApprovals = 3
INVARIANTS
    VerifiedSinceEdit
    SynthesisFollowsEdit
    PlmConsistent
    SubagentTotalsAddUp
    ReleasesWereGated
    BudgetAccounted
