SPECIFICATION FairSpec
CONSTANTS
    q1 = q1
    q2 = q2
    q3 = q3
    u1 = u1
    u2 = u2
    Queries = {q1, q2, q3}
    Upstreams = {u1, u2}
    Configs <- UdpConfigs
    Workloads <- UdpWorkloads
    MaxIdle = 2
    Questions = {"a", "b", "ads"}
    Overridden = {"ads"}
    NoSocket = NoSocket
    NoReply = NoReply
    NoQuestion = NoQuestion
    Garbled = Garbled
    NoId = NoId
INVARIANTS ReplyMatchesQuery
