SPECIFICATION Spec
CONSTANTS
    None = None  Blank = Blank  p0 = p0  p1 = p1  p2 = p2  n1 = n1  n2 = n2  d1 = d1
    m1 = m1  m2 = m2  k1 = k1  k2 = k2  u1 = u1  u2 = u2  g1 = g1  g2 = g2
    sa = sa  sb = sb  doc1 = doc1  doc2 = doc2  bare = bare  tr1 = tr1  tr2 = tr2  i1 = i1
    f1 = f1  f2 = f2  s1 = s1  c1 = c1  l1 = l1  sys = sys  acme = acme
    r1 = r1  r2 = r2  r3 = r3  boot = boot  x1 = x1  x2 = x2
SYMMETRY Symmetry
INVARIANTS ServicesTypeOK ProvisioningSound GrantedIsListed WalkExact 
            SameTokenSameId  
           InstallationSound
CHECK_DEADLOCK FALSE
