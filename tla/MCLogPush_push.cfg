SPECIFICATION Spec
CONSTANTS
    s1 = s1
    d1 = d1
    d2 = d2
    Sessions <- OneSession
    Devices <- MCDevices
    DeviceOf <- MCDeviceOf
    Inline = {s1}
    QueueBytes = 2
    ItemsSize = 2
    Hosts = {TRUE, FALSE}
    MaxHead = 3
INVARIANTS
    LatestHeadOnItsWay
    RevokedIsClosed
    BelieversAreServed
PROPERTIES
    SubscribersCatchUp
    RevokedLearns
