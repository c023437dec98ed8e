SPECIFICATION SmallSpec
CONSTANTS
  Id = {1, 2, 3}
  Amount = {5}
  MaxTime = 2
  MaxEntries = 4
INVARIANTS TypeOK ClockCoversEntries TransactionsUnique AuthorHasHistory AuthorAhead AuthorsAreSequential ClocksAreKeys PairsOrderIndependent LastEditWins BalanceIsSumOfRows
PROPERTY JournalsOnlyGrow
CHECK_DEADLOCK FALSE
