SPECIFICATION ViewerSpec
CONSTANTS
    c1 = c1
    c2 = c2
    c3 = c3
    c4 = c4
    c5 = c5
    home = home
    away = away
    Conn = {c1, c2, c3, c4, c5}
    Ip = {home, away}
    IpOf <- AddressOf
    MaxViewers = 3
    MaxPerIp = 2
    Rate = {2, 20, 23, 25, 200}
    MinRate = 8
    MaxRate = 160
INVARIANTS
    CapIsKept
    CountersAreExact
    

    
