SPECIFICATION Spec
CONSTANTS
  U32Max = 70
  Movies <- MCMovies
  MaxFaults = 1
INVARIANTS
  MovieSamplesFound
PROPERTIES
  SoundMovieIsWritten
