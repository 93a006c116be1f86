SPECIFICATION Spec
CONSTANTS
    a = a
    b = b
    a1 = a1
    a2 = a2
    b1 = b1
    IPs <- MCIPs
    Requests <- MCRequests
    IpOf <- MCIpOf
    Limit = 2
    Window = 2
    MaxIPs = 2
INVARIANT GuessesBounded
PROPERTIES BlockedForCause Recovers
