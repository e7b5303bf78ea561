SPECIFICATION Spec
CONSTANTS
    None = None  r1 = r1  r2 = r2  c1 = c1  sys = sys  ta = ta  tb = tb  ua = ua  f1 = f1
    a1 = a1  d1 = d1  t1 = t1  q1 = q1  p1 = p1  w1 = w1  m1 = m1  boot = boot
PROPERTIES UnusedEventuallyReaped CachesConverge EveryReplicaServes
CHECK_DEADLOCK FALSE
