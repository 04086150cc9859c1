SPECIFICATION Spec
CONSTANTS
  Handlers = {h1, h2, h3}
INVARIANTS
  AnswersAreTrue
  ReadsItsOwnOrder
  CurrentIsPublished
