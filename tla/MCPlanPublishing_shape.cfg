CONSTANTS
  anna = anna
  ben = ben
  user = user
  left = left
  right = right
  Nobody = Nobody
  Admins = {anna, ben}
  Users = {user}
  Tabs = {left, right}
  Library = 2
  Choices = {{3}, {2, 3}}
  First = {2, 3}
  Images = 1
  Files = {1, 2, 3, 4}
  MaxRevision = 2
  MaxVersion = 3
  MaxArchived = 1
  MaxFaults = 1
SYMMETRY Interchangeable
SPECIFICATION Spec
INVARIANTS TypeOK CurrentCopiesPublished
