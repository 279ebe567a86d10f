SPECIFICATION Spec
CONSTANTS
  alice = alice
  bob = bob
  m1 = m1
  m2 = m2
  m3 = m3
  Senders = {alice, bob}
  Messages = {m1, m2, m3}
  SenderOf <- TwoOfAlice
  Chain = {m1}
  Linked = {m2, m3}
  SamePepper = {m3}
  MailboxLimit = 2
  PerSender = 1
  Batch = 1
  KeepsBindings = TRUE
  Copies = 1
  MaxEpoch = 2
INVARIANT TypeOK
PROPERTY PollIsHonest
