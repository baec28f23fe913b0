\* The jobs and a person beside each other, two moves at a time.
SPECIFICATION FairSpec
CONSTANTS
    c1 = c1  l1 = l1  r1 = r1  day = day  night = night
    boosts = boosts  reconcile = reconcile  schedule = schedule  qoe = qoe
    Clients = {c1}
    Links = {l1}
    Routers = {r1}
    RouterOf <- MCRouterOf
    Attached <- MCAttached
    Plan <- MCPlan
    BoostRate = 40
    OverrideRates = {10}
    Slots = {day, night}
    Profiles <- MCProfiles
    MaxWindow = 1
    Capacities = {50, 100}
    Safety = 9
    FloorMbps = 5
    MinDegraded = 1
    Step = 1
    Floor = 8
    Recovery = 2
    Jobs <- MCJobs
    People = {ui}
    FirstProfiles <- MCFirstProfiles
    FirstSlots = {night}
    FirstMeasured <- MCFirstMeasured
    Scenarios <- MCScenarios
PROPERTIES RunningBoostKept Converges GivenBack
CHECK_DEADLOCK FALSE
